---- MODULE Spec2Model ----
(***************************************************************************)
(* Tag compliance engine of azureReportingTool                             *)
(* (src/src/azure_reporter/modules/tag_analyzer.py, class TagAnalyzer).    *)
(*                                                                         *)
(* Numbers that the code keeps as one-decimal floats (compliance rates,    *)
(* percentages) are kept here as integers counting tenths: 100.0 is 1000,  *)
(* 33.3 is 333.  Python strings that the code transforms (tag values, the  *)
(* configured invalid values) are sequences of one-character strings, so   *)
(* that str.lower and str.strip are computed; names that the code only     *)
(* compares or copies are TLA+ strings.  A dynamically typed Python value  *)
(* is a record whose field py names its type.                              *)
(***************************************************************************)
EXTENDS Integers, Sequences, FiniteSets, TLC

VARIABLES
    arg_required_tags,      \* constructor argument required_tags
    arg_invalid_tag_values, \* constructor argument invalid_tag_values
    required_tags,          \* self.required_tags
    invalid_tag_values,     \* self.invalid_tag_values
    resources,              \* the catalog handed to analyze_resource_tags
    probe,                  \* arguments of a direct call of a helper method
    pc,                     \* "constructed", "returned" or "raised"
    result                  \* what the call returned (or the exception)

vars == <<arg_required_tags, arg_invalid_tag_values, required_tags,
          invalid_tag_values, resources, probe, pc, result>>

----------------------------------------------------------------------------
(* Python values *)

PyNone == [py |-> "NoneType"]
PyStr(s) == [py |-> "str", s |-> s]
PyDict(d) == [py |-> "dict", d |-> d]
PyList(l) == [py |-> "list", items |-> l]
PyBool(b) == [py |-> "bool", b |-> b]
PyFloat(t) == [py |-> "float", tenths |-> t]
TypeError == [py |-> "TypeError"]

EmptyDict == <<>>

Range(s) == {s[i] : i \in DOMAIN s}

\* the sequences over S of length at most n
SeqsUpTo(S, n) == UNION {[1..k -> S] : k \in 0..n}

----------------------------------------------------------------------------
(* Bounds *)

MaxStrLen == 2      \* longest tag value / invalid value, in characters
MaxInvalid == 2     \* longest invalid_tag_values list
MaxResources == 2   \* longest list under a resource-type key
MaxGroups == 2      \* longest list under 'resource_groups'
MaxAll == 2         \* longest list under 'all_resources'
MaxTyped == 1       \* longest typed list in a catalog that has 'all_resources'
MaxMalformed == 2   \* longest list in a catalog with malformed entries
MaxBulk == 10       \* most resources in a catalog of many like resources
MaxGapList == 2     \* longest missing_tags_by_resource handed to _generate_findings
MaxGapTotal == 4    \* largest total_resources handed to _generate_findings
MaxCalls == 2       \* most calls of analyze_resource_tags on one engine
MaxThreadResources == 2   \* most resources in the catalog of a concurrent call
MaxUsage == 2       \* most virtual machines in a catalog of varied tag maps
MaxHeapGroups == 1  \* longest 'resource_groups' list of a catalog of objects
MaxHeapResources == 2   \* longest 'virtual_machines' list of a catalog of objects
MaxExtractCalls == 2    \* most calls of extract_backlog_items on one generator
MaxFindings == 1    \* longest 'findings' list of an analysis handed to the generator

----------------------------------------------------------------------------
(* Strings: str.lower, str.strip, str(v) *)

Chars == {"n", "N", " "}

Strings == SeqsUpTo(Chars, MaxStrLen)

LowerChar(c) == IF c = "N" THEN "n" ELSE c

Lower(s) == [i \in 1..Len(s) |-> LowerChar(s[i])]

RECURSIVE LStrip(_)
LStrip(s) == IF s # <<>> /\ Head(s) = " " THEN LStrip(Tail(s)) ELSE s

RECURSIVE RStrip(_)
RStrip(s) == IF s # <<>> /\ s[Len(s)] = " " THEN RStrip(SubSeq(s, 1, Len(s) - 1)) ELSE s

Strip(s) == RStrip(LStrip(s))

\* str(v) if v is not None else ""
StrOrEmpty(v) == IF v.py = "NoneType" THEN <<>> ELSE v.s

----------------------------------------------------------------------------
(* round(x, 1) of the quotient num/den, in tenths when num is in tenths.   *)
(* Python rounds the double to the nearest value and an exact tie to the   *)
(* even neighbour.  The rate of one resource (k of n tags) is never a tie;  *)
(* every average formed from the rates 0.0, 50.0 and 100.0 of a catalog    *)
(* policy of at most two tags is either no tie or a binary fraction the    *)
(* double holds exactly, where this is what round returns.                 *)

RoundHalfEven(num, den) ==
    LET q == num \div den
        r == num % den
    IN  IF 2 * r > den THEN q + 1
        ELSE IF 2 * r < den THEN q
        ELSE IF q % 2 = 0 THEN q ELSE q + 1

----------------------------------------------------------------------------
(* TagAnalyzer.__init__ *)

InitRequiredTags(arg) ==
    IF arg.py = "NoneType" \/ arg.items = <<>> THEN {} ELSE Range(arg.items)

NormalizeInvalidValue(v) == IF v.py = "NoneType" THEN <<>> ELSE Lower(v.s)

InitInvalidTagValues(arg) ==
    IF arg.py = "NoneType" \/ arg.items = <<>> THEN {}
    ELSE {NormalizeInvalidValue(arg.items[i]) : i \in DOMAIN arg.items}

\* the engine object
self == [required_tags |-> required_tags, invalid_tag_values |-> invalid_tag_values]

----------------------------------------------------------------------------
(* TagAnalyzer._is_tag_value_valid *)

IsTagValueValid(slf, tag_value) ==
    IF slf.invalid_tag_values = {} THEN TRUE
    ELSE LET value_str == StrOrEmpty(tag_value)
             value_normalized == Strip(Lower(value_str))
         IN  value_normalized \notin slf.invalid_tag_values

----------------------------------------------------------------------------
(* TagAnalyzer._calculate_resource_compliance *)

\* dict.get(key) : None when the key is absent
DictGet(d, key) == IF key \in DOMAIN d THEN d[key] ELSE PyNone

\* the loop over self.required_tags counting compliant_tags
RECURSIVE CountCompliantTags(_, _, _, _)
CountCompliantTags(slf, todo, resource_tag_names, resource_tags) ==
    IF todo = {} THEN 0
    ELSE LET tag_name == CHOOSE t \in todo : TRUE
             one == IF tag_name \in resource_tag_names
                    THEN IF resource_tags.py # "NoneType"
                         THEN IF IsTagValueValid(slf, DictGet(resource_tags.d, tag_name))
                              THEN 1 ELSE 0
                         ELSE 1
                    ELSE 0
         IN  one + CountCompliantTags(slf, todo \ {tag_name}, resource_tag_names, resource_tags)

\* a variant that counts a required tag as soon as it is present
CalculateResourceCompliancePresenceOnly(slf, resource_tag_names, resource_tags) ==
    IF slf.required_tags = {} THEN 1000
    ELSE RoundHalfEven(Cardinality(slf.required_tags \cap resource_tag_names) * 1000,
                       Cardinality(slf.required_tags))

\* a variant without the convention for an empty policy: nothing required, nothing met
CalculateResourceComplianceEmptyIsZero(slf, resource_tag_names, resource_tags) ==
    IF slf.required_tags = {} THEN 0
    ELSE RoundHalfEven(
            CountCompliantTags(slf, slf.required_tags, resource_tag_names, resource_tags) * 1000,
            Cardinality(slf.required_tags))

CalculateResourceCompliance(slf, resource_tag_names, resource_tags) ==
    IF slf.required_tags = {} THEN 1000
    ELSE RoundHalfEven(
            CountCompliantTags(slf, slf.required_tags, resource_tag_names, resource_tags) * 1000,
            Cardinality(slf.required_tags))

----------------------------------------------------------------------------
(* Helpers for Python containers *)

\* iteration order of a Python set: arbitrary, but fixed while the process runs
RECURSIVE SetToSeq(_)
SetToSeq(S) ==
    IF S = {} THEN <<>>
    ELSE LET x == CHOOSE y \in S : TRUE IN <<x>> \o SetToSeq(S \ {x})

\* what a for statement iterates: a list's items, a string's characters
Iterable(v) == v.py \in {"list", "str"}

IterSeq(v) ==
    IF v.py = "list" THEN v.items ELSE [i \in 1..Len(v.s) |-> PyStr(<<v.s[i]>>)]

\* rec.get('tags', {}) or {}
TagsOrEmpty(rec) ==
    IF "tags" \in DOMAIN rec /\ rec.tags.py = "dict" THEN rec.tags.d ELSE EmptyDict

\* rec.get(key, default) for a field holding a name
GetOr(rec, key, default) == IF key \in DOMAIN rec THEN rec[key] ELSE default

\* d[k] = d.get(k, 0) + 1 on a dict kept as the sequence of its items
CounterIncr(counter, k) ==
    IF \E i \in DOMAIN counter : counter[i].key = k
    THEN [i \in DOMAIN counter |->
            IF counter[i].key = k THEN [counter[i] EXCEPT !.count = @ + 1] ELSE counter[i]]
    ELSE Append(counter, [key |-> k, count |-> 1])

CounterGet(counter, k) ==
    IF \E i \in DOMAIN counter : counter[i].key = k
    THEN LET i == CHOOSE j \in DOMAIN counter : counter[j].key = k IN counter[i].count
    ELSE 0

\* list.sort(key=...) / sorted(..., key=...): stable, ascending by the key k
RECURSIVE InsertByKey(_, _)
InsertByKey(sorted, x) ==
    IF sorted = <<>> THEN <<x>>
    ELSE IF sorted[Len(sorted)].k <= x.k THEN Append(sorted, x)
    ELSE Append(InsertByKey(SubSeq(sorted, 1, Len(sorted) - 1), x), sorted[Len(sorted)])

RECURSIVE SortKeyed(_)
SortKeyed(seq) ==
    IF seq = <<>> THEN <<>>
    ELSE InsertByKey(SortKeyed(SubSeq(seq, 1, Len(seq) - 1)), seq[Len(seq)])

\* keys[i] is the sort key of seq[i]
SortByKey(seq, keys) ==
    LET keyed == [i \in 1..Len(seq) |-> [k |-> keys[i], v |-> seq[i]]]
        sorted == SortKeyed(keyed)
    IN  [i \in 1..Len(seq) |-> sorted[i].v]

\* seq[:n]
Take(seq, n) == SubSeq(seq, 1, IF Len(seq) < n THEN Len(seq) ELSE n)

RECURSIVE SumComplianceRate(_)
SumComplianceRate(seq) ==
    IF seq = <<>> THEN 0 ELSE Head(seq).compliance_rate + SumComplianceRate(Tail(seq))

----------------------------------------------------------------------------
(* TagAnalyzer.analyze_resource_tags: required tags of one tag map *)

\* the loop building invalid_value_tags / rg_invalid_value_tags
\* a variant that also lists the absent required tags, with an empty value
InvalidValueTagsWithMissing(slf, tags) ==
    LET bad == SelectSeq(SetToSeq(slf.required_tags),
                         LAMBDA t : t \notin DOMAIN tags \/ ~IsTagValueValid(slf, tags[t]))
    IN  [i \in 1..Len(bad) |->
            [tag_name |-> bad[i],
             tag_value |-> IF bad[i] \in DOMAIN tags THEN StrOrEmpty(tags[bad[i]]) ELSE <<>>]]

InvalidValueTags(slf, tags) ==
    LET bad == SelectSeq(SetToSeq(slf.required_tags),
                         LAMBDA t : t \in DOMAIN tags /\ ~IsTagValueValid(slf, tags[t]))
    IN  [i \in 1..Len(bad) |-> [tag_name |-> bad[i], tag_value |-> StrOrEmpty(tags[bad[i]])]]

MissingTags(slf, tag_names) ==
    IF slf.required_tags # {} THEN slf.required_tags \ tag_names ELSE {}

----------------------------------------------------------------------------
(* TagAnalyzer.analyze_resource_tags: the loop over resource_groups_list *)

ResourceGroupInfo(slf, rg) ==
    LET rg_name == GetOr(rg, "name", "Unknown")
        rg_tags == TagsOrEmpty(rg)
        rg_tag_names == DOMAIN rg_tags
    IN  [name |-> rg_name,
         tags |-> rg_tags,
         existing_tags |-> SetToSeq(rg_tag_names),
         missing_tags |-> SetToSeq(MissingTags(slf, rg_tag_names)),
         invalid_value_tags |-> InvalidValueTags(slf, rg_tags),
         compliance_rate |-> CalculateResourceCompliance(slf, rg_tag_names, PyDict(rg_tags)),
         resources |-> <<>>]

\* a variant that keeps the first record of a name
SetGroupInfoKeepingFirst(info, rg_info) ==
    IF \E i \in DOMAIN info : info[i].name = rg_info.name
    THEN info
    ELSE Append(info, rg_info)

\* resource_groups_info[rg_name] = {...} on a dict kept as the sequence of its values
SetGroupInfo(info, rg_info) ==
    IF \E i \in DOMAIN info : info[i].name = rg_info.name
    THEN [i \in DOMAIN info |-> IF info[i].name = rg_info.name THEN rg_info ELSE info[i]]
    ELSE Append(info, rg_info)

RECURSIVE ExtractResourceGroups(_, _, _)
ExtractResourceGroups(slf, resource_groups_list, info) ==
    IF resource_groups_list = <<>> THEN info
    ELSE LET rg == Head(resource_groups_list)
         IN  ExtractResourceGroups(slf, Tail(resource_groups_list),
                IF rg.py = "dict" THEN SetGroupInfo(info, ResourceGroupInfo(slf, rg.d)) ELSE info)

----------------------------------------------------------------------------
(* TagAnalyzer.analyze_resource_tags: the loop over resources.items() *)

\* dict iteration order of the catalog: the order the fetcher inserts the keys
CatalogKeyOrder == <<"resource_groups", "virtual_machines", "storage_accounts", "all_resources">>

CatalogItems(catalog) == SelectSeq(CatalogKeyOrder, LAMBDA k : k \in DOMAIN catalog)

EmptyMarker == <<"(empty)">>

\* str(tag_value) if tag_value else "(empty)"
TagValueStr(tag_value) ==
    IF tag_value.py = "NoneType" \/ tag_value.s = <<>> THEN EmptyMarker ELSE tag_value.s

\* tag_values[tag_name][tag_value_str] = tag_values[tag_name].get(tag_value_str, 0) + 1
TagValuesIncr(tag_values, tag_name, tag_value_str) ==
    IF \E i \in DOMAIN tag_values : tag_values[i].key = tag_name
    THEN [i \in DOMAIN tag_values |->
            IF tag_values[i].key = tag_name
            THEN [tag_values[i] EXCEPT !.values = CounterIncr(@, tag_value_str)]
            ELSE tag_values[i]]
    ELSE Append(tag_values, [key |-> tag_name, values |-> CounterIncr(<<>>, tag_value_str)])

\* the loop "for tag_name, tag_value in resource_tags.items()"
RECURSIVE CountTagUsage(_, _, _)
CountTagUsage(acc, todo, resource_tags) ==
    IF todo = <<>> THEN acc
    ELSE LET tag_name == Head(todo)
             tag_value_str == TagValueStr(resource_tags[tag_name])
         IN  CountTagUsage(
                [acc EXCEPT !.all_tags = CounterIncr(@, tag_name),
                            !.tag_values = TagValuesIncr(@, tag_name, tag_value_str)],
                Tail(todo), resource_tags)

ResourceInfo(slf, resource_type, resource) ==
    LET resource_tags == TagsOrEmpty(resource)
        resource_tag_names == DOMAIN resource_tags
    IN  [resource_type |-> resource_type,
         resource_name |-> GetOr(resource, "name", "Unknown"),
         resource_id |-> GetOr(resource, "id", "N/A"),
         resource_group |-> GetOr(resource, "resource_group", "N/A"),
         existing_tags |-> SetToSeq(resource_tag_names),
         missing_tags |-> SetToSeq(MissingTags(slf, resource_tag_names)),
         invalid_value_tags |-> InvalidValueTags(slf, resource_tags),
         compliance_rate |-> CalculateResourceCompliance(slf, resource_tag_names, PyDict(resource_tags))]

\* a variant that matches the group name without regard to case
AddToResourceGroupIgnoringCase(info, resource_info) ==
    LET fold(s) == IF s = "RG1" THEN "rg1" ELSE s
    IN  [i \in DOMAIN info |->
            IF fold(info[i].name) = fold(resource_info.resource_group)
            THEN [info[i] EXCEPT !.resources = Append(@, resource_info)]
            ELSE info[i]]

\* resource_groups_info[resource_group_name]['resources'].append(resource_info)
AddToResourceGroup(info, resource_info) ==
    [i \in DOMAIN info |->
        IF info[i].name = resource_info.resource_group
        THEN [info[i] EXCEPT !.resources = Append(@, resource_info)]
        ELSE info[i]]

\* a variant that counts a resource as tagged only if some tag has a value
AnalyzeResourceValuedTagsOnly(slf, acc, resource_type, resource) ==
    LET resource_tags == TagsOrEmpty(resource)
        resource_info == ResourceInfo(slf, resource_type, resource)
        valued == \E t \in DOMAIN resource_tags :
                    resource_tags[t].py = "str" /\ resource_tags[t].s # <<>>
        counted == [acc EXCEPT
                        !.total_resources = @ + 1,
                        !.resources_with_tags = IF valued THEN @ + 1 ELSE @,
                        !.resources_without_tags = IF valued THEN @ ELSE @ + 1]
        used == CountTagUsage(counted, SetToSeq(DOMAIN resource_tags), resource_tags)
    IN  [used EXCEPT
            !.missing_tags_by_resource =
                IF resource_info.missing_tags # <<>> \/ resource_info.invalid_value_tags # <<>>
                THEN Append(@, resource_info) ELSE @,
            !.resource_groups_info = AddToResourceGroup(@, resource_info)]

\* a variant that records a resource as non-compliant only for a missing tag
AnalyzeResourceMissingOnly(slf, acc, resource_type, resource) ==
    LET resource_tags == TagsOrEmpty(resource)
        resource_info == ResourceInfo(slf, resource_type, resource)
        counted == [acc EXCEPT
                        !.total_resources = @ + 1,
                        !.resources_with_tags = IF DOMAIN resource_tags # {} THEN @ + 1 ELSE @,
                        !.resources_without_tags = IF DOMAIN resource_tags # {} THEN @ ELSE @ + 1]
        used == CountTagUsage(counted, SetToSeq(DOMAIN resource_tags), resource_tags)
    IN  [used EXCEPT
            !.missing_tags_by_resource =
                IF resource_info.missing_tags # <<>> THEN Append(@, resource_info) ELSE @,
            !.resource_groups_info = AddToResourceGroup(@, resource_info)]

\* the body of "for resource in resource_list" for one dict entry
AnalyzeResource(slf, acc, resource_type, resource) ==
    LET resource_tags == TagsOrEmpty(resource)
        resource_info == ResourceInfo(slf, resource_type, resource)
        counted == [acc EXCEPT
                        !.total_resources = @ + 1,
                        !.resources_with_tags = IF DOMAIN resource_tags # {} THEN @ + 1 ELSE @,
                        !.resources_without_tags = IF DOMAIN resource_tags # {} THEN @ ELSE @ + 1]
        used == CountTagUsage(counted, SetToSeq(DOMAIN resource_tags), resource_tags)
    IN  [used EXCEPT
            !.missing_tags_by_resource =
                IF resource_info.missing_tags # <<>> \/ resource_info.invalid_value_tags # <<>>
                THEN Append(@, resource_info) ELSE @,
            !.resource_groups_info = AddToResourceGroup(@, resource_info)]

RECURSIVE AnalyzeResourceList(_, _, _, _)
AnalyzeResourceList(slf, acc, resource_type, resource_list) ==
    IF resource_list = <<>> THEN acc
    ELSE LET resource == Head(resource_list)
         IN  AnalyzeResourceList(slf,
                IF resource.py = "dict" THEN AnalyzeResource(slf, acc, resource_type, resource.d) ELSE acc,
                resource_type, Tail(resource_list))

\* a variant that skips only the resource groups
SkippedKeysGroupsOnly == {"resource_groups"}

SkippedKeys == {"resource_groups", "all_resources"}

RECURSIVE AnalyzeResourceTypes(_, _, _, _)
AnalyzeResourceTypes(slf, acc, keys, catalog) ==
    IF keys = <<>> THEN acc
    ELSE LET resource_type == Head(keys)
             resource_list == catalog[resource_type]
         IN  AnalyzeResourceTypes(slf,
                IF resource_list.py # "list" \/ resource_type \in SkippedKeys
                THEN acc
                ELSE AnalyzeResourceList(slf, acc, resource_type, resource_list.items),
                Tail(keys), catalog)

----------------------------------------------------------------------------
(* TagAnalyzer._build_resource_groups_summary *)

IsNonCompliant(res) == res.missing_tags # <<>> \/ res.invalid_value_tags # <<>>

\* a variant that weights the group's own rate as one more resource
OverallRgComplianceByCount(rg_info) ==
    RoundHalfEven(rg_info.compliance_rate + SumComplianceRate(rg_info.resources),
                  Len(rg_info.resources) + 1)

\* a variant that adds the members' average to the group's own rate without halving
OverallRgComplianceSum(rg_info) ==
    IF rg_info.resources # <<>>
    THEN RoundHalfEven(rg_info.compliance_rate * Len(rg_info.resources)
                            + SumComplianceRate(rg_info.resources),
                       Len(rg_info.resources))
    ELSE rg_info.compliance_rate

OverallRgCompliance(rg_info) ==
    LET rg_own_compliance == rg_info.compliance_rate
        rg_resources == rg_info.resources
    IN  IF rg_resources # <<>>
        THEN \* round((own + sum / len) / 2, 1)
             RoundHalfEven(rg_own_compliance * Len(rg_resources) + SumComplianceRate(rg_resources),
                           2 * Len(rg_resources))
        ELSE RoundHalfEven(rg_own_compliance, 1)

\* a variant that also counts the group when its own tags have a gap
ResourceGroupSummaryCountingOwnGaps(rg_info) ==
    [name |-> rg_info.name,
     tags |-> rg_info.tags,
     existing_tags |-> rg_info.existing_tags,
     missing_tags |-> rg_info.missing_tags,
     invalid_value_tags |-> rg_info.invalid_value_tags,
     compliance_rate |-> OverallRgCompliance(rg_info),
     total_resources |-> Len(rg_info.resources),
     non_compliant_resources |-> Len(SelectSeq(rg_info.resources, IsNonCompliant))
                                    + (IF IsNonCompliant(rg_info) THEN 1 ELSE 0),
     resources |-> rg_info.resources]

ResourceGroupSummary(rg_info) ==
    [name |-> rg_info.name,
     tags |-> rg_info.tags,
     existing_tags |-> rg_info.existing_tags,
     missing_tags |-> rg_info.missing_tags,
     invalid_value_tags |-> rg_info.invalid_value_tags,
     compliance_rate |-> OverallRgCompliance(rg_info),
     total_resources |-> Len(rg_info.resources),
     non_compliant_resources |-> Len(SelectSeq(rg_info.resources, IsNonCompliant)),
     resources |-> rg_info.resources]

\* a variant that leaves the groups in insertion order
SortGroupSummaryUnsorted(summary) == summary

\* summary.sort(key=lambda x: x['compliance_rate'])
SortGroupSummary(summary) ==
    SortByKey(summary, [i \in 1..Len(summary) |-> summary[i].compliance_rate])

BuildResourceGroupsSummary(resource_groups_info) ==
    SortGroupSummary([i \in 1..Len(resource_groups_info) |-> ResourceGroupSummary(resource_groups_info[i])])

----------------------------------------------------------------------------
(* TagAnalyzer._calculate_overall_compliance *)

\* a variant that averages the resources only
CalculateOverallComplianceResourcesOnly(slf, missing_tags_by_resource, total_resources, resource_groups) ==
    IF slf.required_tags = {} \/ total_resources = 0 THEN 1000
    ELSE RoundHalfEven((total_resources - Len(missing_tags_by_resource)) * 1000
                            + SumComplianceRate(missing_tags_by_resource),
                       total_resources)

CalculateOverallCompliance(slf, missing_tags_by_resource, total_resources, resource_groups) ==
    IF slf.required_tags = {} THEN 1000
    ELSE IF total_resources = 0 /\ Len(resource_groups) = 0 THEN 1000
    ELSE LET compliant_resources == total_resources - Len(missing_tags_by_resource)
             partially_compliant == SelectSeq(missing_tags_by_resource, LAMBDA r : r.compliance_rate > 0)
             from_resources == IF total_resources > 0
                               THEN compliant_resources * 1000 + SumComplianceRate(partially_compliant)
                               ELSE 0
             items_resources == IF total_resources > 0 THEN total_resources ELSE 0
             total_compliance == from_resources + SumComplianceRate(resource_groups)
             total_items == items_resources + Len(resource_groups)
         IN  IF total_items = 0 THEN 1000 ELSE RoundHalfEven(total_compliance, total_items)

----------------------------------------------------------------------------
(* TagAnalyzer._generate_findings *)

\* a variant that reports 100.0 for a zero denominator
PercentageDefault100(count, total_resources) ==
    IF total_resources > 0 THEN RoundHalfEven(count * 1000, total_resources) ELSE 1000

\* round(count / total_resources * 100, 1) if total_resources > 0 else 0
Percentage(count, total_resources) ==
    IF total_resources > 0 THEN RoundHalfEven(count * 1000, total_resources) ELSE 0

\* a variant whose bands include their upper limits
OverallFindingInclusive(compliance_rate) ==
    LET severity == IF compliance_rate <= 500 THEN "high"
                    ELSE IF compliance_rate <= 800 THEN "medium"
                    ELSE IF compliance_rate < 1000 THEN "low"
                    ELSE "none"
    IN  IF severity # "none"
        THEN <<[resource |-> <<"All Resources">>, category |-> "tagging", severity |-> severity,
                issue |-> [kind |-> "overall", rate |-> compliance_rate]]>>
        ELSE <<>>

OverallFinding(compliance_rate) ==
    LET severity == IF compliance_rate < 500 THEN "high"
                    ELSE IF compliance_rate < 800 THEN "medium"
                    ELSE IF compliance_rate < 1000 THEN "low"
                    ELSE "none"
    IN  IF severity # "none"
        THEN <<[resource |-> <<"All Resources">>, category |-> "tagging", severity |-> severity,
                issue |-> [kind |-> "overall", rate |-> compliance_rate]]>>
        ELSE <<>>

\* a variant whose bands include their lower limits
UntaggedFindingInclusive(resources_without_tags, total_resources) ==
    IF resources_without_tags > 0
    THEN LET pct == Percentage(resources_without_tags, total_resources)
             severity == IF pct >= 250 THEN "high" ELSE IF pct >= 100 THEN "medium" ELSE "low"
         IN  <<[resource |-> <<"Multiple Resources">>, category |-> "tagging", severity |-> severity,
                issue |-> [kind |-> "untagged", count |-> resources_without_tags, pct |-> pct]]>>
    ELSE <<>>

UntaggedFinding(resources_without_tags, total_resources) ==
    IF resources_without_tags > 0
    THEN LET pct == Percentage(resources_without_tags, total_resources)
             severity == IF pct > 250 THEN "high" ELSE IF pct > 100 THEN "medium" ELSE "low"
         IN  <<[resource |-> <<"Multiple Resources">>, category |-> "tagging", severity |-> severity,
                issue |-> [kind |-> "untagged", count |-> resources_without_tags, pct |-> pct]]>>
    ELSE <<>>

\* What a loop "for x in lists: for k in x: gaps[k] = gaps.get(k, 0) + 1"
\* leaves in gaps: every key in the order of its first occurrence, with the
\* number of its occurrences.  lists[i] is the i-th inner list.
GapCounts(lists) ==
    LET positions == UNION {{<<i, j>> : j \in DOMAIN lists[i]} : i \in DOMAIN lists}
        occurrences(k) == {p \in positions : lists[p[1]][p[2]] = k}
        first(k) == CHOOSE p \in occurrences(k) :
                        \A q \in occurrences(k) : p[1] < q[1] \/ (p[1] = q[1] /\ p[2] <= q[2])
        width == 1 + Cardinality(positions)
        keys == SetToSeq({lists[p[1]][p[2]] : p \in positions})
        ordered == SortByKey(keys, [n \in 1..Len(keys) |-> first(keys[n])[1] * width + first(keys[n])[2]])
    IN  [n \in 1..Len(ordered) |->
            [key |-> ordered[n], count |-> Cardinality(occurrences(ordered[n]))]]

\* tag_gaps after the loop over missing_tags_by_resource
TagGaps(missing_tags_by_resource) ==
    GapCounts([i \in DOMAIN missing_tags_by_resource |-> missing_tags_by_resource[i].missing_tags])

\* invalid_value_gaps after the loop over missing_tags_by_resource
InvalidValueGaps(missing_tags_by_resource) ==
    GapCounts([i \in DOMAIN missing_tags_by_resource |->
                [j \in DOMAIN missing_tags_by_resource[i].invalid_value_tags |->
                    missing_tags_by_resource[i].invalid_value_tags[j].tag_name]])

\* a variant without the limit of five
TopGapsUnlimited(counter) ==
    SortByKey(counter, [i \in 1..Len(counter) |-> 0 - counter[i].count])

\* sorted(gaps.items(), key=lambda x: -x[1])[:5]
TopGaps(counter) ==
    Take(SortByKey(counter, [i \in 1..Len(counter) |-> 0 - counter[i].count]), 5)

GapFindings(kind, counter, total_resources) ==
    LET top == TopGaps(counter)
    IN  [i \in 1..Len(top) |->
            LET pct == Percentage(top[i].count, total_resources)
                severity == IF pct > 500 THEN "high" ELSE IF pct > 250 THEN "medium" ELSE "low"
            IN  [resource |-> <<"Tag: ", top[i].key>>, category |-> "tagging", severity |-> severity,
                 issue |-> [kind |-> kind, tag_name |-> top[i].key, count |-> top[i].count, pct |-> pct]]]

\* a variant that reports the per-tag findings first
GenerateFindingsGapsFirst(missing_tags_by_resource, compliance_rate, resources_without_tags, total_resources) ==
    GapFindings("missing", TagGaps(missing_tags_by_resource), total_resources)
    \o GapFindings("invalid", InvalidValueGaps(missing_tags_by_resource), total_resources)
    \o OverallFinding(compliance_rate)
    \o UntaggedFinding(resources_without_tags, total_resources)

GenerateFindings(missing_tags_by_resource, compliance_rate, resources_without_tags, total_resources) ==
    OverallFinding(compliance_rate)
    \o UntaggedFinding(resources_without_tags, total_resources)
    \o GapFindings("missing", TagGaps(missing_tags_by_resource), total_resources)
    \o GapFindings("invalid", InvalidValueGaps(missing_tags_by_resource), total_resources)

----------------------------------------------------------------------------
(* TagAnalyzer.analyze_resource_tags *)

\* a variant whose resource counter outlives the call
InitialAccumulatorsKept(resource_groups_info) ==
    [all_tags |-> <<>>,
     tag_values |-> <<>>,
     resources_with_tags |-> 0,
     resources_without_tags |-> 0,
     total_resources |-> IF pc = "returned" THEN result.summary.total_resources ELSE 0,
     missing_tags_by_resource |-> <<>>,
     resource_groups_info |-> resource_groups_info]

\* the locals of analyze_resource_tags as each call initialises them
InitialAccumulators(resource_groups_info) ==
    [all_tags |-> <<>>,
     tag_values |-> <<>>,
     resources_with_tags |-> 0,
     resources_without_tags |-> 0,
     total_resources |-> 0,
     missing_tags_by_resource |-> <<>>,
     resource_groups_info |-> resource_groups_info]

\* a variant that lists the tags in the order they were first met
TagSummaryUnsorted(slf, acc) ==
    [i \in 1..Len(acc.all_tags) |->
        [tag_name |-> acc.all_tags[i].key,
         usage_count |-> acc.all_tags[i].count,
         usage_percentage |-> Percentage(acc.all_tags[i].count, acc.total_resources),
         is_required |-> acc.all_tags[i].key \in slf.required_tags,
         unique_values |->
            Len((CHOOSE tv \in Range(acc.tag_values) : tv.key = acc.all_tags[i].key).values)]]

\* sorted(all_tags.items(), key=lambda x: -x[1]) and the tag_summary entries
TagSummary(slf, acc) ==
    LET sorted == SortByKey(acc.all_tags, [i \in 1..Len(acc.all_tags) |-> 0 - acc.all_tags[i].count])
    IN  [i \in 1..Len(sorted) |->
            [tag_name |-> sorted[i].key,
             usage_count |-> sorted[i].count,
             usage_percentage |-> Percentage(sorted[i].count, acc.total_resources),
             is_required |-> sorted[i].key \in slf.required_tags,
             unique_values |->
                Len((CHOOSE tv \in Range(acc.tag_values) : tv.key = sorted[i].key).values)]]

\* a variant that counts a required tag only where no resource_info lists it
\* as missing or invalid
RequiredTagsSummaryValidOnly(slf, acc) ==
    LET order == SetToSeq(slf.required_tags)
        faulty(t) == Cardinality({i \in DOMAIN acc.missing_tags_by_resource :
                        \/ t \in Range(acc.missing_tags_by_resource[i].missing_tags)
                        \/ \E j \in DOMAIN acc.missing_tags_by_resource[i].invalid_value_tags :
                                acc.missing_tags_by_resource[i].invalid_value_tags[j].tag_name = t})
    IN  [i \in 1..Len(order) |->
            LET count == acc.total_resources - faulty(order[i])
            IN  [tag_name |-> order[i],
                 compliant_resources |-> count,
                 non_compliant_resources |-> acc.total_resources - count,
                 compliance_percentage |-> Percentage(count, acc.total_resources)]]

RequiredTagsSummary(slf, acc) ==
    LET order == SetToSeq(slf.required_tags)
    IN  [i \in 1..Len(order) |->
            LET count == CounterGet(acc.all_tags, order[i])
            IN  [tag_name |-> order[i],
                 compliant_resources |-> count,
                 non_compliant_resources |-> acc.total_resources - count,
                 compliance_percentage |-> Percentage(count, acc.total_resources)]]

AnalysisResult(slf, acc) ==
    LET resource_groups_by_compliance == BuildResourceGroupsSummary(acc.resource_groups_info)
        compliance_rate == CalculateOverallCompliance(slf, acc.missing_tags_by_resource,
                                acc.total_resources, resource_groups_by_compliance)
    IN  [py |-> "dict",
         summary |-> [total_resources |-> acc.total_resources,
                      resources_with_tags |-> acc.resources_with_tags,
                      resources_without_tags |-> acc.resources_without_tags,
                      unique_tags_found |-> Len(acc.all_tags),
                      required_tags_count |-> Cardinality(slf.required_tags),
                      overall_compliance_rate |-> compliance_rate,
                      total_resource_groups |-> Len(acc.resource_groups_info)],
         tag_usage |-> TagSummary(slf, acc),
         required_tags_compliance |-> RequiredTagsSummary(slf, acc),
         non_compliant_resources |-> acc.missing_tags_by_resource,
         resource_groups_details |-> resource_groups_by_compliance,
         findings |-> GenerateFindings(acc.missing_tags_by_resource, compliance_rate,
                                       acc.resources_without_tags, acc.total_resources)]

\* resources.get('resource_groups', [])
ResourceGroupsList(catalog) ==
    IF "resource_groups" \in DOMAIN catalog THEN catalog.resource_groups ELSE PyList(<<>>)

AnalyzeResourceTags(slf, catalog) ==
    LET resource_groups_list == ResourceGroupsList(catalog)
    IN  IF ~Iterable(resource_groups_list) THEN TypeError
        ELSE LET resource_groups_info == ExtractResourceGroups(slf, IterSeq(resource_groups_list), <<>>)
                 acc == AnalyzeResourceTypes(slf, InitialAccumulators(resource_groups_info),
                                             CatalogItems(catalog), catalog)
             IN  AnalysisResult(slf, acc)

----------------------------------------------------------------------------
(* Inputs: constructor arguments and catalogs *)

CatalogTagNames == {"Environment", "Owner"}

ValueProd == PyStr(<<"p">>)
ValuePlaceholder == PyStr(<<" ", "N">>)

RequiredArgs == {PyList(SetToSeq(S)) : S \in SUBSET CatalogTagNames}

InvalidArgs == {PyNone, PyList(<<PyStr(<<"N">>)>>)}

TagsNone == EmptyDict
TagsFull == [Environment |-> ValueProd, Owner |-> ValueProd]
TagsPlaceholder == [Environment |-> ValuePlaceholder, Owner |-> ValueProd]

ResourceTagMaps == {TagsNone, TagsFull, TagsPlaceholder}

GroupNames == {"rg1", "rg2"}

\* records as the fetcher builds them; a resource of "rg2" belongs to no group
\* when the catalog lists no group of that name
ResourceEntries ==
    {PyDict([name |-> "vm", id |-> "/vm", resource_group |-> g, tags |-> PyDict(t)]) :
        g \in GroupNames, t \in ResourceTagMaps}

GroupEntries ==
    {PyDict([name |-> "rg1", tags |-> PyDict(TagsNone)]),
     PyDict([name |-> "rg1", tags |-> PyDict(TagsFull)]),
     PyDict([name |-> "rg2", tags |-> PyDict(TagsFull)]),
     PyDict([name |-> "rg2", tags |-> PyDict(TagsPlaceholder)])}

Catalogs ==
    {[resource_groups |-> PyList(gs), virtual_machines |-> PyList(rs)] :
        gs \in SeqsUpTo(GroupEntries, MaxGroups), rs \in SeqsUpTo(ResourceEntries, MaxResources)}

----------------------------------------------------------------------------
(* One engine, one call of analyze_resource_tags *)

Constructed(req_args, inv_args) ==
    /\ arg_required_tags \in req_args
    /\ arg_invalid_tag_values \in inv_args
    /\ required_tags = InitRequiredTags(arg_required_tags)
    /\ invalid_tag_values = InitInvalidTagValues(arg_invalid_tag_values)
    /\ pc = "constructed"
    /\ result = PyNone

Init ==
    /\ Constructed(RequiredArgs, InvalidArgs)
    /\ resources \in Catalogs
    /\ probe = PyNone

Analyze ==
    /\ pc = "constructed"
    /\ LET r == AnalyzeResourceTags(self, resources)
       IN  /\ result' = r
           /\ pc' = IF r.py = "TypeError" THEN "raised" ELSE "returned"
    /\ UNCHANGED <<arg_required_tags, arg_invalid_tag_values, required_tags,
                   invalid_tag_values, resources, probe>>

Next == Analyze

Spec == Init /\ [][Next]_vars

----------------------------------------------------------------------------
(* Catalogs with the flattened 'all_resources' view *)

\* the flattened view repeats the typed records
FlatEntries == {e \in ResourceEntries : e.d.resource_group = "rg1"}

FlatGroupEntries == {PyDict([name |-> "rg1", tags |-> PyDict(t)]) : t \in {TagsNone, TagsFull}}

CatalogsWithAll ==
    {[resource_groups |-> PyList(gs), virtual_machines |-> PyList(rs), all_resources |-> PyList(as)] :
        gs \in SeqsUpTo(FlatGroupEntries, MaxTyped),
        rs \in SeqsUpTo(ResourceEntries, MaxTyped),
        as \in SeqsUpTo(FlatEntries, MaxAll)}
    \cup {[all_resources |-> PyList(as)] : as \in SeqsUpTo(FlatEntries, MaxAll)}

InitAll ==
    /\ Constructed(RequiredArgs, InvalidArgs)
    /\ resources \in CatalogsWithAll
    /\ probe = PyNone

SpecAll == InitAll /\ [][Next]_vars

----------------------------------------------------------------------------
(* Catalogs with malformed data *)

NonListValues == {PyNone, PyStr(<<"p", "n">>)}

NonRecordEntries == {PyNone, PyStr(<<"p">>)}

MalformedResourceEntries ==
    NonRecordEntries
    \cup {PyDict(EmptyDict),
          PyDict([name |-> "vm", resource_group |-> "rg1", tags |-> PyNone]),
          PyDict([name |-> "vm", id |-> "/vm", resource_group |-> "rg1",
                  tags |-> PyDict([Environment |-> ValueProd])])}

MalformedGroupEntries ==
    NonRecordEntries
    \cup {PyDict(EmptyDict),
          PyDict([name |-> "rg1", tags |-> PyNone]),
          PyDict([name |-> "rg1", tags |-> PyDict([Environment |-> ValueProd])])}

\* a function with the keys of f for which keep holds
Restrict(f, keep) == [k \in keep |-> f[k]]

MalformedCatalogs ==
    LET Absent == [py |-> "absent"]
        full == {[resource_groups |-> g, virtual_machines |-> r, storage_accounts |-> o] :
                    g \in {Absent} \cup NonListValues
                          \cup {PyList(l) : l \in SeqsUpTo(MalformedGroupEntries, MaxMalformed)},
                    r \in NonListValues
                          \cup {PyList(l) : l \in SeqsUpTo(MalformedResourceEntries, MaxMalformed)},
                    o \in {Absent} \cup NonListValues}
    IN  {Restrict(c, {k \in DOMAIN c : c[k] # Absent}) : c \in full}

InitMalformed ==
    /\ Constructed({PyList(<<>>), PyList(<<"Environment">>)}, InvalidArgs)
    /\ resources \in MalformedCatalogs
    /\ probe = PyNone

SpecMalformed == InitMalformed /\ [][Next]_vars

----------------------------------------------------------------------------
(* A direct call of _is_tag_value_valid *)

TagValues == {PyNone} \cup {PyStr(s) : s \in Strings}

InvalidListArgs == {PyNone} \cup {PyList(l) : l \in SeqsUpTo(TagValues, MaxInvalid)}

InitValid ==
    /\ Constructed({PyNone}, InvalidListArgs)
    /\ resources = EmptyDict
    /\ probe \in TagValues

CallIsTagValueValid ==
    /\ pc = "constructed"
    /\ result' = PyBool(IsTagValueValid(self, probe))
    /\ pc' = "returned"
    /\ UNCHANGED <<arg_required_tags, arg_invalid_tag_values, required_tags,
                   invalid_tag_values, resources, probe>>

NextValid == CallIsTagValueValid

SpecValid == InitValid /\ [][NextValid]_vars

----------------------------------------------------------------------------
(* A direct call of _calculate_resource_compliance *)

PolicyTagNames == {"Environment", "Owner", "CostCenter"}

PolicyArgs == {PyNone} \cup {PyList(SetToSeq(S)) : S \in SUBSET PolicyTagNames}

PolicyInvalidArgs == InvalidArgs \cup {PyList(<<PyStr(<<>>), PyStr(<<"n">>)>>)}

PolicyTagMaps ==
    UNION {[S -> {ValueProd, ValuePlaceholder, PyNone}] : S \in SUBSET PolicyTagNames}

\* (resource_tag_names, resource_tags) as analyze_resource_tags passes them,
\* and with the optional resource_tags left out
ComplianceCalls ==
    {[resource_tag_names |-> DOMAIN t, resource_tags |-> PyDict(t)] : t \in PolicyTagMaps}
    \cup {[resource_tag_names |-> S, resource_tags |-> PyNone] : S \in SUBSET PolicyTagNames}

InitCompliance ==
    /\ Constructed(PolicyArgs, PolicyInvalidArgs)
    /\ resources = EmptyDict
    /\ probe \in ComplianceCalls

CallCalculateResourceCompliance ==
    /\ pc = "constructed"
    /\ result' = PyFloat(CalculateResourceCompliance(self, probe.resource_tag_names, probe.resource_tags))
    /\ pc' = "returned"
    /\ UNCHANGED <<arg_required_tags, arg_invalid_tag_values, required_tags,
                   invalid_tag_values, resources, probe>>

NextCompliance == CallCalculateResourceCompliance

SpecCompliance == InitCompliance /\ [][NextCompliance]_vars

----------------------------------------------------------------------------
(* Findings: analyze_resource_tags on catalogs of many like resources, and *)
(* direct calls of _generate_findings                                      *)

\* n copies of x
Repeat(x, n) == [i \in 1..n |-> x]

BulkEntry(t) ==
    PyDict([name |-> "vm", id |-> "/vm", resource_group |-> "rg1", tags |-> PyDict(t)])

\* no group, or one group; the resources belong to a group that is not listed,
\* which keeps every average a quotient of exact multiples of 50.0
BulkGroupLists ==
    {<<>>} \cup {<<PyDict([name |-> "rg2", tags |-> PyDict(t)])>> : t \in ResourceTagMaps}

\* n[1] untagged, n[2] fully tagged and n[3] placeholder-tagged resources
BulkCatalogs ==
    {[resource_groups |-> PyList(gs),
      virtual_machines |-> PyList(Repeat(BulkEntry(TagsNone), n[1])
                                  \o Repeat(BulkEntry(TagsFull), n[2])
                                  \o Repeat(BulkEntry(TagsPlaceholder), n[3]))] :
        gs \in BulkGroupLists,
        n \in {m \in [1..3 -> 0..MaxBulk] : m[1] + m[2] + m[3] <= MaxBulk}}

\* a resource count at which a share just above one quarter still rounds to 25.0%
ManyResources == 503

\* the smallest number of resources that is more than a quarter of them
OverAQuarter == ManyResources \div 4 + 1

GapTagNames == <<"Application", "CostCenter", "Environment", "Owner", "Project", "Team">>

\* the first k and the last k of the tag names
FirstTags(k) == {GapTagNames[i] : i \in 1..k}
LastTags(k) == {GapTagNames[i] : i \in (Len(GapTagNames) - k + 1)..Len(GapTagNames)}

\* an entry of missing_tags_by_resource as analyze_resource_tags builds it for
\* a resource that lacks the first k required tags and carries the others with
\* an invalid value: the two lists are disjoint and the rate is 0.0
GapEntry(k) ==
    LET missing == SetToSeq(FirstTags(k))
        invalid == SetToSeq(LastTags(Len(GapTagNames) - k))
    IN  [missing_tags |-> missing,
         invalid_value_tags |-> [i \in 1..Len(invalid) |->
                                    [tag_name |-> invalid[i], tag_value |-> <<"n">>]],
         compliance_rate |-> 0]

GapEntries == {GapEntry(k) : k \in 0..Len(GapTagNames)}

\* for resources that all carry some tag and no resource group
FindingsCalls ==
    {[missing_tags_by_resource |-> l,
      compliance_rate |-> CalculateOverallCompliance([required_tags |-> Range(GapTagNames)], l, n, <<>>),
      resources_without_tags |-> 0,
      total_resources |-> n] :
        l \in SeqsUpTo(GapEntries, MaxGapList) \ {<<>>}, n \in 1..MaxGapTotal}

\* of many resources, more than a quarter lack every required tag and are
\* untagged, or carry every required tag with an invalid value
ManyCalls ==
    {[missing_tags_by_resource |-> Repeat(GapEntry(k), OverAQuarter),
      compliance_rate |-> CalculateOverallCompliance([required_tags |-> Range(GapTagNames)],
                                Repeat(GapEntry(k), OverAQuarter), ManyResources, <<>>),
      resources_without_tags |-> IF k = 0 THEN 0 ELSE OverAQuarter,
      total_resources |-> ManyResources] : k \in {0, Len(GapTagNames)}}

InitFindings ==
    \/ /\ Constructed(RequiredArgs, InvalidArgs)
       /\ resources \in BulkCatalogs
       /\ probe = PyNone
    \/ /\ Constructed({PyList(GapTagNames)}, {PyList(<<PyStr(<<"N">>)>>)})
       /\ resources = EmptyDict
       /\ probe \in {c \in FindingsCalls : Len(c.missing_tags_by_resource) <= c.total_resources}
                    \cup ManyCalls

AnalyzeBulk ==
    /\ probe = PyNone
    /\ Analyze

CallGenerateFindings ==
    /\ pc = "constructed"
    /\ probe # PyNone
    /\ result' = PyList(GenerateFindings(probe.missing_tags_by_resource, probe.compliance_rate,
                                         probe.resources_without_tags, probe.total_resources))
    /\ pc' = "returned"
    /\ UNCHANGED <<arg_required_tags, arg_invalid_tag_values, required_tags,
                   invalid_tag_values, resources, probe>>

NextFindings == AnalyzeBulk \/ CallGenerateFindings

SpecFindings == InitFindings /\ [][NextFindings]_vars

----------------------------------------------------------------------------
(* Several calls of analyze_resource_tags, one after the other, on one     *)
(* engine.  probe holds the calls made so far, each with its catalog and   *)
(* what it gave.                                                           *)

\* at most one resource group and one resource, or a resource_groups value
\* that is no list
CallCatalogs ==
    {[resource_groups |-> PyList(gs), virtual_machines |-> PyList(rs)] :
        gs \in {<<>>} \cup {<<g>> : g \in GroupEntries},
        rs \in {<<>>} \cup {<<r>> : r \in ResourceEntries}}
    \cup {[resource_groups |-> PyNone]}

InitCalls ==
    /\ Constructed({PyList(<<"Environment", "Owner">>)}, InvalidArgs)
    /\ resources = EmptyDict
    /\ probe = <<>>

\* the engine's attributes are read, none is assigned; every other name of
\* the method is a local of the call
CallAnalyze ==
    /\ Len(probe) < MaxCalls
    /\ \E catalog \in CallCatalogs :
        LET r == AnalyzeResourceTags(self, catalog)
        IN  /\ resources' = catalog
            /\ result' = r
            /\ pc' = IF r.py = "TypeError" THEN "raised" ELSE "returned"
            /\ probe' = Append(probe, [catalog |-> catalog, report |-> r])
    /\ UNCHANGED <<arg_required_tags, arg_invalid_tag_values, required_tags, invalid_tag_values>>

NextCalls == CallAnalyze

SpecCalls == InitCalls /\ [][NextCalls]_vars

----------------------------------------------------------------------------
(* Concurrent calls of analyze_resource_tags on one engine, one per        *)
(* thread.  resources, probe, pc and result hold one value per thread:     *)
(* the catalog handed to the thread's call, the locals of the call (its    *)
(* frame), its position and what it returned.  A step of a thread is the   *)
(* evaluation of the method up to the next iteration of one of its loops.  *)

Threads == {"t1", "t2"}

ThreadEntries ==
    {PyDict([name |-> "vm", id |-> "/vm", resource_group |-> "rg1", tags |-> PyDict(t)]) :
        t \in {TagsNone, TagsPlaceholder}}

ThreadCatalogs ==
    {[resource_groups |-> PyList(gs), virtual_machines |-> PyList(rs)] :
        gs \in {<<>>, <<PyDict([name |-> "rg1", tags |-> PyDict(TagsFull)])>>},
        rs \in SeqsUpTo(ThreadEntries, MaxThreadResources)}
    \cup {[resource_groups |-> PyNone]}

Max(a, b) == IF a > b THEN a ELSE b

\* a variant in which the resource counter is an attribute of the engine,
\* shared by the calls
LocalsSharedCounter(frames, t) ==
    LET others == {u \in Threads \ {t} : frames[u] # PyNone}
    IN  IF others = {} THEN frames[t]
        ELSE LET u == CHOOSE v \in others : TRUE
             IN  [frames[t] EXCEPT !.acc.total_resources = Max(@, frames[u].acc.total_resources)]

\* the locals of thread t's call: every call has a frame of its own
Locals(frames, t) == frames[t]

InitThreads ==
    /\ arg_required_tags = PyList(<<"Environment", "Owner">>)
    /\ arg_invalid_tag_values \in InvalidArgs
    /\ required_tags = InitRequiredTags(arg_required_tags)
    /\ invalid_tag_values = InitInvalidTagValues(arg_invalid_tag_values)
    /\ resources \in [Threads -> ThreadCatalogs]
    /\ probe = [t \in Threads |-> PyNone]
    /\ pc = [t \in Threads |-> "constructed"]
    /\ result = [t \in Threads |-> PyNone]

\* entry of the method up to the loop over the resource types: the locals
\* are initialised and the resource groups extracted
StartCall(t) ==
    /\ pc[t] = "constructed"
    /\ LET resource_groups_list == ResourceGroupsList(resources[t])
       IN  IF ~Iterable(resource_groups_list)
           THEN /\ result' = [result EXCEPT ![t] = TypeError]
                /\ pc' = [pc EXCEPT ![t] = "raised"]
                /\ probe' = probe
           ELSE /\ probe' = [probe EXCEPT ![t] =
                                [acc |-> InitialAccumulators(
                                            ExtractResourceGroups(self, IterSeq(resource_groups_list), <<>>)),
                                 keys |-> CatalogItems(resources[t]),
                                 resource_type |-> "",
                                 resource_list |-> <<>>]]
                /\ pc' = [pc EXCEPT ![t] = "analyzing"]
                /\ result' = result
    /\ UNCHANGED <<arg_required_tags, arg_invalid_tag_values, required_tags,
                   invalid_tag_values, resources>>

\* the next iteration of "for resource_type, resource_list in resources.items()"
NextResourceType(t) ==
    /\ pc[t] = "analyzing"
    /\ LET frame == Locals(probe, t)
       IN  /\ frame.resource_list = <<>>
           /\ frame.keys # <<>>
           /\ LET resource_type == Head(frame.keys)
                  resource_list == resources[t][resource_type]
              IN  probe' = [probe EXCEPT ![t] =
                                [acc |-> frame.acc,
                                 keys |-> Tail(frame.keys),
                                 resource_type |-> resource_type,
                                 resource_list |->
                                    IF resource_list.py # "list" \/ resource_type \in SkippedKeys
                                    THEN <<>> ELSE resource_list.items]]
    /\ UNCHANGED <<arg_required_tags, arg_invalid_tag_values, required_tags,
                   invalid_tag_values, resources, pc, result>>

\* the next iteration of "for resource in resource_list"
NextResource(t) ==
    /\ pc[t] = "analyzing"
    /\ LET frame == Locals(probe, t)
       IN  /\ frame.resource_list # <<>>
           /\ LET resource == Head(frame.resource_list)
              IN  probe' = [probe EXCEPT ![t] =
                                [acc |-> IF resource.py = "dict"
                                         THEN AnalyzeResource(self, frame.acc, frame.resource_type, resource.d)
                                         ELSE frame.acc,
                                 keys |-> frame.keys,
                                 resource_type |-> frame.resource_type,
                                 resource_list |-> Tail(frame.resource_list)]]
    /\ UNCHANGED <<arg_required_tags, arg_invalid_tag_values, required_tags,
                   invalid_tag_values, resources, pc, result>>

\* after the loops: the summaries, the overall rate, the findings, the return
ReturnReport(t) ==
    /\ pc[t] = "analyzing"
    /\ LET frame == Locals(probe, t)
       IN  /\ frame.resource_list = <<>>
           /\ frame.keys = <<>>
           /\ result' = [result EXCEPT ![t] = AnalysisResult(self, frame.acc)]
    /\ pc' = [pc EXCEPT ![t] = "returned"]
    /\ UNCHANGED <<arg_required_tags, arg_invalid_tag_values, required_tags,
                   invalid_tag_values, resources, probe>>

NextThreads ==
    \E t \in Threads :
        \/ StartCall(t)
        \/ NextResourceType(t)
        \/ NextResource(t)
        \/ ReturnReport(t)

SpecThreads == InitThreads /\ [][NextThreads]_vars

----------------------------------------------------------------------------
(* Catalogs of resources with varied tag maps under several resource types *)

ValueEmpty == PyStr(<<>>)

UsageTagMaps ==
    {TagsNone,
     [Environment |-> ValueProd],
     [Environment |-> ValuePlaceholder],
     [Environment |-> ValueEmpty],
     [Owner |-> ValueProd],
     [Environment |-> ValueProd, Owner |-> ValuePlaceholder],
     [Team |-> ValueProd]}

\* records of the group "rg1", a record whose tags are None, and a record
\* with a name only
UsageEntries ==
    {PyDict([name |-> "vm", id |-> "/vm", resource_group |-> "rg1", tags |-> PyDict(t)]) :
        t \in UsageTagMaps}
    \cup {PyDict([name |-> "vm", id |-> "/vm", resource_group |-> "rg1", tags |-> PyNone]),
          PyDict([name |-> "vm"])}

StorageEntries ==
    {PyNone,
     PyDict([name |-> "st", id |-> "/st", resource_group |-> "rg1", tags |-> PyDict(TagsNone)]),
     PyDict([name |-> "st", id |-> "/st", resource_group |-> "RG1",
             tags |-> PyDict([Environment |-> ValueProd])])}

\* no group, the group "rg1", or "rg1" and a fully tagged group named "RG1"
UsageGroupLists ==
    LET rg1 == PyDict([name |-> "rg1", tags |-> PyDict([Environment |-> ValuePlaceholder])])
    IN  {<<>>, <<rg1>>, <<rg1, PyDict([name |-> "RG1", tags |-> PyDict(TagsFull)])>>}

UsageCatalogs ==
    LET Absent == [py |-> "absent"]
        full == {[resource_groups |-> PyList(gs), virtual_machines |-> PyList(rs),
                  storage_accounts |-> st, all_resources |-> al] :
                    gs \in UsageGroupLists,
                    rs \in SeqsUpTo(UsageEntries, MaxUsage),
                    st \in {Absent, PyNone} \cup {PyList(<<e>>) : e \in StorageEntries},
                    al \in {Absent, PyList(<<PyDict([name |-> "vm", id |-> "/vm", resource_group |-> "rg1",
                                                    tags |-> PyDict([Owner |-> ValueProd])])>>)}}
    IN  {Restrict(c, {k \in DOMAIN c : c[k] # Absent}) : c \in full}

InitUsage ==
    /\ Constructed({PyNone, PyList(<<"Environment">>), PyList(<<"Environment", "Owner">>)},
                   {PyList(<<PyStr(<<"N">>)>>)})
    /\ resources \in UsageCatalogs
    /\ probe = PyNone

SpecUsage == InitUsage /\ [][Next]_vars

----------------------------------------------------------------------------
(* web_app: the session credentials behind POST /api/env-vars.  Here       *)
(* resources holds current_state['env_vars'], probe the JSON body of the   *)
(* request being served and result the response to it; no engine is        *)
(* involved.                                                               *)

env_vars == resources

MaskMarker == <<"*", "*", "*">>

\* sub in s, for strings
Contains(s, sub) ==
    \E i \in 1..(Len(s) - Len(sub) + 1) : SubSeq(s, i, i + Len(sub) - 1) = sub

\* _mask_secret
MaskSecret(secret) ==
    IF secret = <<>> THEN <<>>
    ELSE IF Len(secret) <= 8 THEN MaskMarker
    ELSE SubSeq(secret, 1, 4) \o MaskMarker \o SubSeq(secret, Len(secret) - 3, Len(secret))

\* the truth value of a posted JSON string or null
Truthy(value) == value.py = "str" /\ value.s # <<>>

\* a variant that takes only the bare marker for a masked value
IsMaskedValueExact(value) == Truthy(value) /\ value.s = MaskMarker

\* _is_masked_value
IsMaskedValue(value) == Truthy(value) /\ Contains(value.s, MaskMarker)

\* the if statements of api_set_env_vars, in their order
EnvVarSteps ==
    <<[field |-> "azure_tenant_id", secret |-> FALSE],
      [field |-> "azure_client_id", secret |-> FALSE],
      [field |-> "azure_client_secret", secret |-> TRUE],
      [field |-> "openai_api_key", secret |-> TRUE],
      [field |-> "openai_model", secret |-> FALSE],
      [field |-> "azure_openai_endpoint", secret |-> FALSE],
      [field |-> "azure_openai_key", secret |-> TRUE],
      [field |-> "azure_openai_deployment", secret |-> FALSE]>>

\* data.get(field)
DataGet(data, field) == IF field \in DOMAIN data THEN data[field] ELSE PyNone

\* current_state['env_vars'][field] = value
StoreEnvVar(stored, field, value) ==
    [k \in DOMAIN stored \cup {field} |-> IF k = field THEN value ELSE stored[k]]

\* one if statement of api_set_env_vars
SetEnvVar(stored, data, step) ==
    IF /\ Truthy(DataGet(data, step.field))
       /\ step.secret => ~IsMaskedValue(data[step.field])
    THEN StoreEnvVar(stored, step.field, data[step.field])
    ELSE stored

RECURSIVE SetEnvVars(_, _, _)
SetEnvVars(stored, data, steps) ==
    IF steps = <<>> THEN stored
    ELSE SetEnvVars(SetEnvVar(stored, data, Head(steps)), data, Tail(steps))

\* api_set_env_vars: what is stored afterwards, and the response; a body
\* that is null makes data.get raise, which the handler catches
ApiSetEnvVars(stored, body) ==
    IF body.py # "dict" THEN [env_vars |-> stored, response |-> [success |-> FALSE]]
    ELSE [env_vars |-> SetEnvVars(stored, body.d, EnvVarSteps), response |-> [success |-> TRUE]]

ShortSecret == <<"s", "k">>
LongSecret == <<"s", "k", "-", "t", "e", "s", "t", "1", "2">>

PostedBodies ==
    LET Absent == [py |-> "absent"]
        full == {[azure_tenant_id |-> t, azure_client_secret |-> c, openai_api_key |-> o,
                  openai_model |-> m, azure_openai_key |-> a] :
                    t \in {Absent, PyStr(<<"t">>)},
                    c \in {Absent, PyStr(<<>>), PyStr(LongSecret), PyStr(MaskSecret(LongSecret))},
                    o \in {Absent, PyNone, PyStr(<<>>), PyStr(ShortSecret), PyStr(LongSecret),
                           PyStr(MaskSecret(ShortSecret)), PyStr(MaskSecret(LongSecret)),
                           PyStr(<<"*", "*">>)},
                    m \in {Absent, PyStr(<<>>), PyStr(<<"m", "1">>), PyStr(<<"m", "2">>)},
                    a \in {Absent, PyStr(ShortSecret), PyStr(MaskSecret(ShortSecret))}}
    IN  {PyDict(Restrict(b, {k \in DOMAIN b : b[k] # Absent})) : b \in full} \cup {PyNone}

InitWeb ==
    /\ arg_required_tags = PyNone
    /\ arg_invalid_tag_values = PyNone
    /\ required_tags = {}
    /\ invalid_tag_values = {}
    /\ env_vars = EmptyDict
    /\ probe = PyNone
    /\ pc = "serving"
    /\ result = PyNone

\* a POST /api/env-vars request arrives
ReceiveRequest ==
    /\ pc = "serving"
    /\ probe' \in PostedBodies
    /\ pc' = "handling"
    /\ result' = PyNone
    /\ UNCHANGED <<arg_required_tags, arg_invalid_tag_values, required_tags,
                   invalid_tag_values, resources>>

\* api_set_env_vars runs on the request
PostEnvVars ==
    /\ pc = "handling"
    /\ LET r == ApiSetEnvVars(env_vars, probe)
       IN  /\ resources' = r.env_vars
           /\ result' = r.response
    /\ pc' = "responded"
    /\ UNCHANGED <<arg_required_tags, arg_invalid_tag_values, required_tags,
                   invalid_tag_values, probe>>

\* the response is sent and the request is over
SendResponse ==
    /\ pc = "responded"
    /\ probe' = PyNone
    /\ result' = PyNone
    /\ pc' = "serving"
    /\ UNCHANGED <<arg_required_tags, arg_invalid_tag_values, required_tags,
                   invalid_tag_values, resources>>

NextWeb == ReceiveRequest \/ PostEnvVars \/ SendResponse

SpecWeb == InitWeb /\ [][NextWeb]_vars

----------------------------------------------------------------------------
(* One call of analyze_resource_tags on objects.  Here probe is the heap,  *)
(* the sequence of the objects allocated so far: the engine's two sets,    *)
(* the catalog with its lists, records and tag maps, then what the call    *)
(* creates.  resources, required_tags and invalid_tag_values are           *)
(* references into it, result holds the locals of the running call and     *)
(* then its report, arg_required_tags the value of the inputs as the call  *)
(* found them.  A statement that assigns to a subscript or appends writes  *)
(* to the object its target refers to.                                     *)

heap == probe

before == arg_required_tags

Ref(a) == [py |-> "ref", at |-> a]

IsRef(v) == v.py = "ref"

\* a new object; Newest is the reference to it
Alloc(h, obj) == Append(h, obj)

Newest(h) == Ref(Len(h))

Write(h, r, obj) == [h EXCEPT ![r.at] = obj]

\* list.append(v) on the list object r refers to
AppendTo(h, r, v) == Write(h, r, PyList(Append(h[r.at].items, v)))

\* the caller's record: a dict whose 'tags' refers to a dict of its own
StoreRecord(h, rec) ==
    IF rec.d.tags.py = "dict"
    THEN LET h1 == Alloc(h, rec.d.tags)
         IN  Alloc(h1, PyDict([rec.d EXCEPT !.tags = Newest(h1)]))
    ELSE Alloc(h, rec)

RECURSIVE StoreRecords(_, _, _)
StoreRecords(h, recs, refs) ==
    IF recs = <<>> THEN Alloc(h, PyList(refs))
    ELSE LET h1 == StoreRecord(h, Head(recs))
         IN  StoreRecords(h1, Tail(recs), Append(refs, Newest(h1)))

StoreCatalog(h, catalog) ==
    LET h1 == StoreRecords(h, catalog.resource_groups.items, <<>>)
        h2 == StoreRecords(h1, catalog.virtual_machines.items, <<>>)
    IN  Alloc(h2, PyDict([resource_groups |-> Newest(h1), virtual_machines |-> Newest(h2)]))

\* the values the references lead to
TagsAt(h, v) == IF IsRef(v) THEN h[v.at] ELSE v

RecordAt(h, r) == PyDict([h[r.at].d EXCEPT !.tags = TagsAt(h, @)])

ListAt(h, r) == PyList([i \in DOMAIN h[r.at].items |-> RecordAt(h, h[r.at].items[i])])

CatalogAt(h, r) == [k \in DOMAIN h[r.at].d |-> ListAt(h, h[r.at].d[k])]

EngineAt(h) ==
    [required_tags |-> h[required_tags.at].elems,
     invalid_tag_values |-> h[invalid_tag_values.at].elems]

\* the catalog and the engine's sets, by value
InputsAt(h) == [catalog |-> CatalogAt(h, resources), engine |-> EngineAt(h)]

HeapTagValues ==
    {PyNone, PyDict(TagsNone), PyDict([Environment |-> ValueProd]),
     PyDict([Environment |-> ValuePlaceholder])}

HeapGroupEntries == {PyDict([name |-> "rg1", tags |-> t]) : t \in HeapTagValues}

HeapResourceEntries ==
    {PyDict([name |-> "vm", id |-> "/vm", resource_group |-> g, tags |-> t]) :
        g \in GroupNames, t \in HeapTagValues}

HeapCatalogs ==
    {[resource_groups |-> PyList(gs), virtual_machines |-> PyList(rs)] :
        gs \in SeqsUpTo(HeapGroupEntries, MaxHeapGroups),
        rs \in SeqsUpTo(HeapResourceEntries, MaxHeapResources)}

InitHeap ==
    /\ \E req \in {PyNone, PyList(<<"Environment">>)}, catalog \in HeapCatalogs :
            probe = StoreCatalog(
                        <<[py |-> "set", elems |-> InitRequiredTags(req)],
                          [py |-> "set", elems |-> InitInvalidTagValues(PyList(<<PyStr(<<"N">>)>>))]>>,
                        catalog)
    /\ required_tags = Ref(1)
    /\ invalid_tag_values = Ref(2)
    /\ resources = Newest(probe)
    /\ arg_required_tags = PyNone
    /\ arg_invalid_tag_values = PyNone
    /\ pc = "constructed"
    /\ result = PyNone

\* the statements before the loops: the locals, each a new object
EnterAnalyze ==
    /\ pc = "constructed"
    /\ LET h1 == Alloc(heap, [py |-> "dict", entries |-> <<>>])
           h2 == Alloc(h1, PyList(<<>>))
           h3 == Alloc(h2, [py |-> "dict", entries |-> <<>>])
           h4 == Alloc(h3, [py |-> "dict", entries |-> <<>>])
       IN  /\ probe' = h4
           /\ result' = [all_tags |-> Newest(h1),
                         resources_with_tags |-> 0,
                         resources_without_tags |-> 0,
                         total_resources |-> 0,
                         missing_tags_by_resource |-> Newest(h2),
                         tag_values |-> Newest(h3),
                         resource_groups_info |-> Newest(h4),
                         groups_done |-> 0,
                         resources_done |-> 0]
    /\ arg_required_tags' = InputsAt(heap)
    /\ pc' = "running"
    /\ UNCHANGED <<arg_invalid_tag_values, required_tags, invalid_tag_values, resources>>

\* rg.get('tags', {}) or {}: the record's own tag map when it has tags, else a new one
RgTags(h, rg) ==
    IF IsRef(rg.tags) /\ DOMAIN h[rg.tags.at].d # {}
    THEN [heap |-> h, ref |-> rg.tags]
    ELSE [heap |-> Alloc(h, PyDict(EmptyDict)), ref |-> Newest(Alloc(h, PyDict(EmptyDict)))]

\* one iteration of "for rg in resource_groups_list"
ExtractGroup ==
    /\ pc = "running"
    /\ LET resource_groups_list == heap[heap[resources.at].d.resource_groups.at].items
       IN  /\ result.groups_done < Len(resource_groups_list)
           /\ LET rg == resource_groups_list[result.groups_done + 1]
                  info == ResourceGroupInfo(EngineAt(heap), RecordAt(heap, rg).d)
                  rg_tags == RgTags(heap, heap[rg.at].d)
                  h1 == Alloc(rg_tags.heap, PyList(<<>>))
                  h2 == Alloc(h1, PyDict([info EXCEPT !.tags = rg_tags.ref, !.resources = Newest(h1)]))
                  keys == h2[result.resource_groups_info.at].entries
              IN  probe' = Write(h2, result.resource_groups_info,
                                 [py |-> "dict",
                                  entries |-> SetGroupInfo(keys, [name |-> info.name, value |-> Newest(h2)])])
    /\ result' = [result EXCEPT !.groups_done = @ + 1]
    /\ UNCHANGED <<arg_required_tags, arg_invalid_tag_values, required_tags,
                   invalid_tag_values, resources, pc>>

\* a variant that annotates the caller's record with the analysis
StoreResourceInfoInPlace(h, resource, info) ==
    LET rec == h[resource.at].d
        annotated == [k \in DOMAIN rec \cup DOMAIN info |->
                        IF k \in DOMAIN info THEN info[k] ELSE rec[k]]
    IN  [heap |-> Write(h, resource, PyDict(annotated)), ref |-> resource]

\* resource_info = {...}: a new dict
StoreResourceInfo(h, resource, info) ==
    [heap |-> Alloc(h, PyDict(info)), ref |-> Newest(Alloc(h, PyDict(info)))]

\* one iteration of "for resource in resource_list" under 'virtual_machines'
AnalyzeOneResource ==
    /\ pc = "running"
    /\ LET resource_groups_list == heap[heap[resources.at].d.resource_groups.at].items
           resource_list == heap[heap[resources.at].d.virtual_machines.at].items
       IN  /\ result.groups_done = Len(resource_groups_list)
           /\ result.resources_done < Len(resource_list)
           /\ LET resource == resource_list[result.resources_done + 1]
                  rec == RecordAt(heap, resource).d
                  resource_tags == TagsOrEmpty(rec)
                  info == ResourceInfo(EngineAt(heap), "virtual_machines", rec)
                  used == CountTagUsage([all_tags |-> heap[result.all_tags.at].entries,
                                         tag_values |-> heap[result.tag_values.at].entries],
                                        SetToSeq(DOMAIN resource_tags), resource_tags)
                  h1 == Write(heap, result.all_tags, [py |-> "dict", entries |-> used.all_tags])
                  h2 == Write(h1, result.tag_values, [py |-> "dict", entries |-> used.tag_values])
                  stored == StoreResourceInfo(h2, resource, info)
                  h3 == IF IsNonCompliant(info)
                        THEN AppendTo(stored.heap, result.missing_tags_by_resource, stored.ref)
                        ELSE stored.heap
                  keys == h3[result.resource_groups_info.at].entries
                  hit == {i \in DOMAIN keys : keys[i].name = info.resource_group}
              IN  /\ probe' = IF hit = {} THEN h3
                              ELSE AppendTo(h3, h3[keys[CHOOSE i \in hit : TRUE].value.at].d.resources,
                                            stored.ref)
                  /\ result' = [result EXCEPT
                                    !.total_resources = @ + 1,
                                    !.resources_with_tags = IF DOMAIN resource_tags # {} THEN @ + 1 ELSE @,
                                    !.resources_without_tags = IF DOMAIN resource_tags # {} THEN @ ELSE @ + 1,
                                    !.resources_done = @ + 1]
    /\ UNCHANGED <<arg_required_tags, arg_invalid_tag_values, required_tags,
                   invalid_tag_values, resources, pc>>

\* the dicts a list object refers to
DictsAt(h, r) == [i \in DOMAIN h[r.at].items |-> h[h[r.at].items[i].at].d]

\* the locals by value, as the statements after the loops read them
AccumulatorsAt(h, frame) ==
    LET keys == h[frame.resource_groups_info.at].entries
        rg_info(i) == h[keys[i].value.at].d
    IN  [all_tags |-> h[frame.all_tags.at].entries,
         tag_values |-> h[frame.tag_values.at].entries,
         resources_with_tags |-> frame.resources_with_tags,
         resources_without_tags |-> frame.resources_without_tags,
         total_resources |-> frame.total_resources,
         missing_tags_by_resource |-> DictsAt(h, frame.missing_tags_by_resource),
         resource_groups_info |->
            [i \in DOMAIN keys |->
                [rg_info(i) EXCEPT !.tags = h[rg_info(i).tags.at].d,
                                   !.resources = DictsAt(h, rg_info(i).resources)]]]

\* the statements after the loops: they build the report from new lists
ReturnAnalysis ==
    /\ pc = "running"
    /\ result.groups_done = Len(heap[heap[resources.at].d.resource_groups.at].items)
    /\ result.resources_done = Len(heap[heap[resources.at].d.virtual_machines.at].items)
    /\ result' = AnalysisResult(EngineAt(heap), AccumulatorsAt(heap, result))
    /\ pc' = "returned"
    /\ UNCHANGED <<arg_required_tags, arg_invalid_tag_values, required_tags,
                   invalid_tag_values, resources, probe>>

NextHeap == EnterAnalyze \/ ExtractGroup \/ AnalyzeOneResource \/ ReturnAnalysis

SpecHeap == InitHeap /\ [][NextHeap]_vars

----------------------------------------------------------------------------
(* backlog_generator: BacklogGenerator.  Here result is self.backlog_items,  *)
(* resources the analyses of the latest call, probe the number of calls    *)
(* made on the generator and arg_invalid_tag_values the date the clock     *)
(* shows, taken as the same through a run.  Strings that the code converts *)
(* are sequences of characters.                                            *)

backlog_items == result

today == arg_invalid_tag_values

LowerLetters == <<"a", "b", "c", "d", "e", "f", "g", "h", "i", "j", "k", "l", "m", "n", "o", "p", "q", "r", "s", "t", "u", "v", "w", "x", "y", "z">>

UpperLetters == <<"A", "B", "C", "D", "E", "F", "G", "H", "I", "J", "K", "L", "M", "N", "O", "P", "Q", "R", "S", "T", "U", "V", "W", "X", "Y", "Z">>

IsLetter(c) == c \in Range(LowerLetters) \cup Range(UpperLetters)

\* str.lower() and str.upper() of one character
LowerOf(c) ==
    IF c \in Range(UpperLetters)
    THEN LowerLetters[CHOOSE i \in DOMAIN UpperLetters : UpperLetters[i] = c]
    ELSE c

UpperOf(c) ==
    IF c \in Range(LowerLetters)
    THEN UpperLetters[CHOOSE i \in DOMAIN LowerLetters : LowerLetters[i] = c]
    ELSE c

StrLower(s) == [i \in 1..Len(s) |-> LowerOf(s[i])]

StrUpper(s) == [i \in 1..Len(s) |-> UpperOf(s[i])]

\* str.title(): a letter that follows no letter in upper case, the others in lower case
StrTitle(s) ==
    [i \in 1..Len(s) |->
        IF i = 1 \/ ~IsLetter(s[i - 1]) THEN UpperOf(s[i]) ELSE LowerOf(s[i])]

\* str.replace(a, b) for single characters
StrReplace(s, a, b) == [i \in 1..Len(s) |-> IF s[i] = a THEN b ELSE s[i]]

\* resource_type.split('/')[-1] if '/' in resource_type else resource_type
SimpleType(resource_type) ==
    LET slashes == {i \in 1..Len(resource_type) : resource_type[i] = "/"}
    IN  IF slashes = {} THEN resource_type
        ELSE SubSeq(resource_type, (CHOOSE i \in slashes : \A j \in slashes : j <= i) + 1,
                    Len(resource_type))

DigitChars == <<"0", "1", "2", "3", "4", "5", "6", "7", "8", "9">>

RECURSIVE Digits(_)
Digits(n) == IF n < 10 THEN <<DigitChars[n + 1]>> ELSE Digits(n \div 10) \o <<DigitChars[(n % 10) + 1]>>

\* f"ITEM-{item_id:04d}"
ItemId(item_id) ==
    LET digits == Digits(item_id)
        zeros == [i \in 1..(IF Len(digits) < 4 THEN 4 - Len(digits) ELSE 0) |-> "0"]
    IN  <<"I", "T", "E", "M", "-">> \o zeros \o digits

SeverityCritical == <<"c", "r", "i", "t", "i", "c", "a", "l">>

SeverityHigh == <<"h", "i", "g", "h">>

SeverityMedium == <<"m", "e", "d", "i", "u", "m">>

SeverityLow == <<"l", "o", "w">>

CategoryGeneral == <<"g", "e", "n", "e", "r", "a", "l">>

CategorySecurity == <<"s", "e", "c", "u", "r", "i", "t", "y">>

\* BacklogGenerator._calculate_priority
CalculatePriority(severity) ==
    LET s == StrLower(severity)
    IN  CASE s = SeverityCritical -> 1
          [] s = SeverityHigh -> 2
          [] s = SeverityMedium -> 3
          [] s = SeverityLow -> 4
          [] OTHER -> 3

\* BacklogGenerator._estimate_effort
EstimateEffort(finding) ==
    LET severity == StrLower(GetOr(finding, "severity", SeverityMedium))
        category == StrLower(GetOr(finding, "category", CategoryGeneral))
    IN  IF category = CategorySecurity /\ severity \in {SeverityCritical, SeverityHigh} THEN "Medium"
        ELSE IF severity = SeverityCritical THEN "High"
        ELSE IF severity = SeverityLow THEN "Small"
        ELSE "Medium"

\* the dict built for one finding
BacklogItem(item_id, resource_type, finding) ==
    [id |-> ItemId(item_id),
     resource_type |-> resource_type,
     resource_name |-> GetOr(finding, "resource", "N/A"),
     category |-> StrTitle(GetOr(finding, "category", CategoryGeneral)),
     severity |-> StrUpper(GetOr(finding, "severity", SeverityMedium)),
     issue |-> GetOr(finding, "issue", "N/A"),
     recommendation |-> GetOr(finding, "recommendation", "N/A"),
     status |-> "Open",
     priority |-> CalculatePriority(GetOr(finding, "severity", SeverityMedium)),
     estimated_effort |-> EstimateEffort(finding),
     created_date |-> today]

\* the items of "for finding in analysis['findings']", numbered from item_id
ItemsOfFindings(item_id, resource_type, findings) ==
    [i \in 1..Len(findings) |-> BacklogItem(item_id + i - 1, resource_type, findings[i])]

TypedResourceTypes == <<<<"v", "i", "r", "t", "u", "a", "l", "_", "m", "a", "c", "h", "i", "n", "e", "s">>, <<"s", "t", "o", "r", "a", "g", "e", "_", "a", "c", "c", "o", "u", "n", "t", "s">>, <<"n", "e", "t", "w", "o", "r", "k", "_", "s", "e", "c", "u", "r", "i", "t", "y", "_", "g", "r", "o", "u", "p", "s">>, <<"v", "i", "r", "t", "u", "a", "l", "_", "n", "e", "t", "w", "o", "r", "k", "s">>>>

GenericResources == <<"g", "e", "n", "e", "r", "i", "c", "_", "r", "e", "s", "o", "u", "r", "c", "e", "s">>

\* the loop over resource_types: the items appended, in order
RECURSIVE TypedItems(_, _, _)
TypedItems(analyses, resource_types, item_id) ==
    IF resource_types = <<>> THEN <<>>
    ELSE LET resource_type == Head(resource_types)
             found == IF resource_type \in DOMAIN analyses
                         /\ "findings" \in DOMAIN analyses[resource_type]
                      THEN ItemsOfFindings(item_id,
                                           StrTitle(StrReplace(resource_type, "_", " ")),
                                           analyses[resource_type].findings)
                      ELSE <<>>
         IN  found \o TypedItems(analyses, Tail(resource_types), item_id + Len(found))

\* the loop over generic_analysis['resource_types'].items()
RECURSIVE GenericItems(_, _, _)
GenericItems(resource_types, keys, item_id) ==
    IF keys = <<>> THEN <<>>
    ELSE LET resource_type == Head(keys)
             found == IF "findings" \in DOMAIN resource_types[resource_type]
                      THEN ItemsOfFindings(item_id, SimpleType(resource_type),
                                           resource_types[resource_type].findings)
                      ELSE <<>>
         IN  found \o GenericItems(resource_types, Tail(keys), item_id + Len(found))

\* item_id = 1
FirstItemId(items) == 1

\* BacklogGenerator.extract_backlog_items
ExtractedBacklogItems(items, analyses) ==
    LET item_id == FirstItemId(items)
        typed == TypedItems(analyses, TypedResourceTypes, item_id)
        generic == IF GenericResources \in DOMAIN analyses
                      /\ "resource_types" \in DOMAIN analyses[GenericResources]
                   THEN GenericItems(analyses[GenericResources].resource_types,
                                     SetToSeq(DOMAIN analyses[GenericResources].resource_types),
                                     item_id + Len(typed))
                   ELSE <<>>
        appended == items \o typed \o generic
    IN  SortByKey(appended, [i \in 1..Len(appended) |-> appended[i].priority])

\* findings as the analyzers emit them, and some with a key missing or a
\* severity in another case
BacklogFindings ==
    {[resource |-> "vm1", category |-> CategorySecurity, severity |-> SeverityCritical,
      issue |-> "open port", recommendation |-> "close it"],
     [resource |-> "vm2", severity |-> <<"H", "i", "g", "h">>, issue |-> "no backup"],
     [resource |-> "vm3", category |-> CategoryGeneral, severity |-> SeverityLow],
     [issue |-> "untagged"]}

BacklogAnalyses ==
    LET Absent == [py |-> "absent"]
        typed == {Absent, [status |-> "skipped"]}
                 \cup {[findings |-> fs] : fs \in SeqsUpTo(BacklogFindings, MaxFindings)}
        generic == {Absent,
                    [total_resources |-> 0],
                    [resource_types |->
                        (<<"M", "s", ".", "D", "b", "/", "s", "e", "r", "v", "e", "r", "s">> :> [findings |-> <<[resource |-> "db1", severity |-> SeverityHigh]>>])]}
        full == {(<<"v", "i", "r", "t", "u", "a", "l", "_", "m", "a", "c", "h", "i", "n", "e", "s">> :> t) @@ (GenericResources :> g) : t \in typed, g \in generic}
    IN  {Restrict(a, {k \in DOMAIN a : a[k] # Absent}) : a \in full}

\* BacklogGenerator.__init__
InitBacklog ==
    /\ result = <<>>
    /\ probe = 0
    /\ resources = PyNone
    /\ arg_invalid_tag_values \in {"2024-01-01", "2024-12-31"}
    /\ arg_required_tags = PyNone
    /\ required_tags = {}
    /\ invalid_tag_values = {}
    /\ pc = "constructed"

ExtractBacklogItems ==
    /\ probe < MaxExtractCalls
    /\ \E analyses \in BacklogAnalyses :
            /\ resources' = analyses
            /\ result' = ExtractedBacklogItems(backlog_items, analyses)
    /\ probe' = probe + 1
    /\ pc' = "extracted"
    /\ UNCHANGED <<arg_required_tags, arg_invalid_tag_values, required_tags, invalid_tag_values>>

NextBacklog == ExtractBacklogItems

SpecBacklog == InitBacklog /\ [][NextBacklog]_vars

----------------------------------------------------------------------------
(* Vocabulary of the properties *)

Abs(x) == IF x < 0 THEN 0 - x ELSE x

\* r is num/den rounded to the nearest integer, an exact tie to the even one
IsRounded(r, num, den) ==
    /\ 2 * Abs(r * den - num) <= den
    /\ 2 * Abs(r * den - num) = den => r % 2 = 0

\* the required tags that a tag map carries with a valid value
ValidRequiredTags(tags) ==
    {t \in required_tags : t \in DOMAIN tags /\ IsTagValueValid(self, tags[t])}

\* rate (in tenths) is the compliance rate the policy gives a tag map
IsComplianceRateOf(rate, tags) ==
    IF required_tags = {} THEN rate = 1000
    ELSE IsRounded(rate, 1000 * Cardinality(ValidRequiredTags(tags)), Cardinality(required_tags))

\* num/den rounded
Rounded(num, den) == CHOOSE r \in {num \div den, num \div den + 1} : IsRounded(r, num, den)

\* the compliance rate (in tenths) the policy gives a tag map
ComplianceRateOf(tags) ==
    IF required_tags = {} THEN 1000
    ELSE Rounded(1000 * Cardinality(ValidRequiredTags(tags)), Cardinality(required_tags))

RECURSIVE SumSeq(_)
SumSeq(seq) == IF seq = <<>> THEN 0 ELSE Head(seq) + SumSeq(Tail(seq))

\* the record entries of the list under a catalog key, in input order
RecordsUnder(k) ==
    IF k \in DOMAIN resources /\ resources[k].py = "list"
    THEN SelectSeq(resources[k].items, LAMBDA e : e.py = "dict")
    ELSE <<>>

\* the records under the resource-type keys
TypedRecords == RecordsUnder("virtual_machines") \o RecordsUnder("storage_accounts")

GroupRecords == RecordsUnder("resource_groups")

TagsOfRecord(e) == TagsOrEmpty(e.d)

GroupOfRecord(e) == GetOr(e.d, "resource_group", "N/A")

NameOfGroupRecord(e) == GetOr(e.d, "name", "Unknown")

\* the typed records naming a group, in input order
MembersOf(group_name) == SelectSeq(TypedRecords, LAMBDA e : GroupOfRecord(e) = group_name)

\* the tag map of the last group record of a name
OwnTagsOf(group_name) ==
    LET idx == {i \in DOMAIN GroupRecords : NameOfGroupRecord(GroupRecords[i]) = group_name}
        last == CHOOSE i \in idx : \A j \in idx : j <= i
    IN  TagsOfRecord(GroupRecords[last])

RatesOf(records) == [i \in 1..Len(records) |-> ComplianceRateOf(TagsOfRecord(records[i]))]

Details == result.resource_groups_details

\* the resource_info records of the members of a group, in input order
MemberInfos(group_name) ==
    LET under(k) == SelectSeq(RecordsUnder(k), LAMBDA e : GroupOfRecord(e) = group_name)
        infos(k) == [i \in 1..Len(under(k)) |-> ResourceInfo(self, k, under(k)[i].d)]
    IN  infos("virtual_machines") \o infos("storage_accounts")

\* the typed records with a missing or invalid-valued required tag, in input order
NonCompliantRecords ==
    SelectSeq(TypedRecords, LAMBDA e : ComplianceRateOf(TagsOfRecord(e)) < 1000)

----------------------------------------------------------------------------
(* C1: for every tag map (of a resource, or of a resource group itself)    *)
(* and every required-tag set R, the compliance rate is 100.0 when R is    *)
(* empty and otherwise round(100 * k / |R|, 1), k being the number of tags *)
(* of R that are present with a valid value.                               *)

C1_ResourceCompliance ==
    (pc = "returned" /\ probe.resource_tags.py = "dict")
        => IsComplianceRateOf(result.tenths, probe.resource_tags.d)

\* two of three required tags count, the third is present with an invalid value
C1_Witness ==
    /\ pc = "returned"
    /\ probe.resource_tags.py = "dict"
    /\ Cardinality(required_tags) = 3
    /\ required_tags \subseteq DOMAIN probe.resource_tags.d
    /\ Cardinality(ValidRequiredTags(probe.resource_tags.d)) = 2
    /\ result.tenths = 667

----------------------------------------------------------------------------
(* C2: with a non-empty required-tag set and at least one resource or      *)
(* group, summary.overall_compliance_rate is the rounded mean over all     *)
(* counted resources' rates and all groups' aggregate rates, each resource *)
(* and each group weighing one; with an empty required-tag set, or no      *)
(* resource and no group, it is 100.0.                                     *)

C2_OverallCompliance ==
    pc = "returned" =>
        LET n == Len(TypedRecords)
            g == Len(Details)
            total == SumSeq(RatesOf(TypedRecords))
                     + SumSeq([i \in 1..g |-> Details[i].compliance_rate])
            overall == result.summary.overall_compliance_rate
        IN  IF required_tags = {} \/ n + g = 0
            THEN overall = 1000
            ELSE IsRounded(overall, total, n + g)

\* two resources, one of them half compliant, and a group whose aggregate
\* rate differs from the rate of its own tags
C2_Witness ==
    /\ pc = "returned"
    /\ required_tags # {}
    /\ Len(TypedRecords) = 2
    /\ \E i \in DOMAIN TypedRecords : ComplianceRateOf(TagsOfRecord(TypedRecords[i])) = 500
    /\ \E i \in DOMAIN Details :
            /\ Details[i].total_resources > 0
            /\ Details[i].compliance_rate # ComplianceRateOf(OwnTagsOf(Details[i].name))
    /\ result.summary.overall_compliance_rate \notin {0, 1000}

----------------------------------------------------------------------------
(* C3: a group with own compliance C_g and N member resources with rates   *)
(* c_1..c_N is listed with compliance_rate C_g when N = 0 and              *)
(* round((C_g + mean(c_1..c_N)) / 2, 1) when N > 0: the two terms weigh    *)
(* the same whatever N is.                                                 *)

C3_GroupAggregate ==
    pc = "returned" =>
        \A i \in DOMAIN Details :
            LET own == ComplianceRateOf(OwnTagsOf(Details[i].name))
                members == MembersOf(Details[i].name)
                N == Len(members)
            IN  IF N = 0
                THEN Details[i].compliance_rate = own
                ELSE IsRounded(Details[i].compliance_rate,
                               own * N + SumSeq(RatesOf(members)), 2 * N)

\* a fully tagged group holding two untagged resources is rated 50.0
C3_Witness ==
    /\ pc = "returned"
    /\ \E i \in DOMAIN Details :
            /\ ComplianceRateOf(OwnTagsOf(Details[i].name)) = 1000
            /\ Len(MembersOf(Details[i].name)) = 2
            /\ SumSeq(RatesOf(MembersOf(Details[i].name))) = 0
            /\ Details[i].compliance_rate = 500

----------------------------------------------------------------------------
(* C5: resource_groups_details is ordered by aggregate compliance_rate,    *)
(* worst groups first.                                                     *)

C5_GroupsWorstFirst ==
    pc = "returned" =>
        \A i, j \in DOMAIN Details :
            i < j => Details[i].compliance_rate <= Details[j].compliance_rate

\* the group listed first in the catalog is rated better and reported last
C5_Witness ==
    /\ pc = "returned"
    /\ Len(Details) = 2
    /\ Details[1].compliance_rate < Details[2].compliance_rate
    /\ NameOfGroupRecord(GroupRecords[1]) = Details[2].name

----------------------------------------------------------------------------
(* C4: in every entry of resource_groups_details the member list is        *)
(* ordered worst-first: compliance_rate is non-decreasing by index and     *)
(* members of equal rate keep their input order.                           *)

C4_MembersWorstFirst ==
    pc = "returned" =>
        \A g \in DOMAIN Details :
            LET members == Details[g].resources
                supplied == MemberInfos(Details[g].name)
            IN  /\ \A i, j \in DOMAIN members :
                        i < j => members[i].compliance_rate <= members[j].compliance_rate
                /\ \A r \in {0, 500, 1000} :
                        SelectSeq(members, LAMBDA m : m.compliance_rate = r)
                            = SelectSeq(supplied, LAMBDA m : m.compliance_rate = r)

----------------------------------------------------------------------------
(* C6: entries under 'all_resources' are left out of the per-resource      *)
(* counting: the report is the one the catalog without that key gets, so   *)
(* a resource listed under its type key and under 'all_resources' counts   *)
(* once.                                                                   *)

----------------------------------------------------------------------------
(* C7: for a catalog whose only key is 'all_resources' holding n records,  *)
(* summary.total_resources is n and non_compliant_resources holds exactly  *)
(* the records that miss a required tag.                                   *)

C7_AllResourcesAnalyzed ==
    (pc = "returned" /\ DOMAIN resources = {"all_resources"}) =>
        LET records == RecordsUnder("all_resources")
        IN  /\ result.summary.total_resources = Len(records)
            /\ Len(result.non_compliant_resources)
                    = Cardinality({i \in DOMAIN records :
                            required_tags \ DOMAIN TagsOfRecord(records[i]) # {}})

----------------------------------------------------------------------------
(* C8: analyze never fails on malformed catalog data: whatever key maps to *)
(* a non-list value, whatever list holds non-record entries and whatever   *)
(* record lacks its fields or has tags = None, a complete report comes     *)
(* back in which those values and entries are not counted and the missing  *)
(* fields read as no tags, 'Unknown' and 'N/A'.                            *)

C8_NeverFailsOnMalformed ==
    /\ pc # "raised"
    /\ pc = "returned" =>
        /\ result.summary.total_resources = Len(TypedRecords)
        /\ result.summary.total_resource_groups
                = Cardinality({NameOfGroupRecord(GroupRecords[i]) : i \in DOMAIN GroupRecords})
        /\ Len(result.non_compliant_resources) = Len(NonCompliantRecords)
        /\ \A i \in DOMAIN NonCompliantRecords :
                LET e == NonCompliantRecords[i].d
                    info == result.non_compliant_resources[i]
                IN  /\ info.resource_name = GetOr(e, "name", "Unknown")
                    /\ info.resource_id = GetOr(e, "id", "N/A")
                    /\ info.resource_group = GetOr(e, "resource_group", "N/A")
                    /\ Range(info.existing_tags) = DOMAIN TagsOrEmpty(e)

----------------------------------------------------------------------------
(* C9 as stated: every percentage or average whose denominator is zero is  *)
(* reported as 100.0; with a non-empty required-tag set and no resources   *)
(* each required_tags_compliance entry has compliance_percentage 100.0.    *)

C9_ZeroDenominatorIs100 ==
    pc = "returned" =>
        /\ (required_tags = {} \/ Len(TypedRecords) + Len(Details) = 0)
                => result.summary.overall_compliance_rate = 1000
        /\ (required_tags # {} /\ result.summary.total_resources = 0)
                => \A i \in DOMAIN result.required_tags_compliance :
                        result.required_tags_compliance[i].compliance_percentage = 1000

(* C9 as the code has it: no zero denominator raises.  The overall rate of *)
(* an empty policy or of a catalog without resources and groups, and every *)
(* rate under an empty policy, are 100.0; the per-tag percentages over     *)
(* zero resources are 0; a group without members is rated by its own tags. *)

C9_ZeroDenominatorGuards ==
    /\ pc # "raised"
    /\ pc = "returned" =>
        /\ (required_tags = {} \/ Len(TypedRecords) + Len(Details) = 0)
                => result.summary.overall_compliance_rate = 1000
        /\ required_tags = {} => \A g \in DOMAIN Details : Details[g].compliance_rate = 1000
        /\ result.summary.total_resources = 0 =>
                /\ Len(result.required_tags_compliance) = Cardinality(required_tags)
                /\ \A i \in DOMAIN result.required_tags_compliance :
                        result.required_tags_compliance[i].compliance_percentage = 0
                /\ result.tag_usage = <<>>
                /\ \A i \in DOMAIN result.findings : result.findings[i].issue.kind = "overall"
        /\ \A g \in DOMAIN Details :
                Details[g].total_resources = 0
                    => Details[g].compliance_rate = ComplianceRateOf(OwnTagsOf(Details[g].name))

\* two required tags, an untagged group and no resources
C9_Witness ==
    /\ pc = "returned"
    /\ Cardinality(required_tags) = 2
    /\ result.summary.total_resources = 0
    /\ Len(result.required_tags_compliance) = 2
    /\ Len(Details) = 1
    /\ Details[1].total_resources = 0
    /\ Details[1].compliance_rate = 0

----------------------------------------------------------------------------
(* C10: with a non-empty invalid-value set a tag value v is invalid        *)
(* exactly when lower(trim(str(v))), None read as the empty string, equals *)
(* the lowercased and trimmed form of some configured invalid value; with  *)
(* an empty set every value is valid.                                      *)

C10_InvalidMatchingTrimsBothSides ==
    pc = "returned" =>
        LET configured == IF arg_invalid_tag_values.py = "list"
                          THEN Range(arg_invalid_tag_values.items) ELSE {}
        IN  result.b = ~(\E s \in configured :
                            Strip(Lower(StrOrEmpty(probe))) = Strip(Lower(StrOrEmpty(s))))

----------------------------------------------------------------------------
(* C11: for every resource and every resource group, missing_tags is       *)
(* exactly the set of required tags absent from its tag map and            *)
(* invalid_value_tags lists exactly the required tags present with an      *)
(* invalid value, each once and with its value; the two are disjoint.      *)

\* the required tags a tag map lacks
AbsentRequired(tags) == required_tags \ DOMAIN tags

\* the required tags a tag map carries with an invalid value
InvalidRequired(tags) ==
    {t \in required_tags \cap DOMAIN tags : ~IsTagValueValid(self, tags[t])}

\* info classifies the required tags of the tag map as C11 states
ClassifiedAs(info, tags) ==
    /\ Range(info.missing_tags) = AbsentRequired(tags)
    /\ Len(info.missing_tags) = Cardinality(AbsentRequired(tags))
    /\ Range(info.invalid_value_tags)
            = {[tag_name |-> t, tag_value |-> StrOrEmpty(tags[t])] : t \in InvalidRequired(tags)}
    /\ Len(info.invalid_value_tags) = Cardinality(InvalidRequired(tags))
    /\ Range(info.missing_tags)
            \cap {info.invalid_value_tags[i].tag_name : i \in DOMAIN info.invalid_value_tags} = {}

C11_MissingVersusInvalid ==
    pc = "returned" =>
        /\ Len(result.non_compliant_resources) = Len(NonCompliantRecords)
        /\ \A i \in DOMAIN NonCompliantRecords :
                ClassifiedAs(result.non_compliant_resources[i], TagsOfRecord(NonCompliantRecords[i]))
        /\ \A g \in DOMAIN Details :
                /\ ClassifiedAs(Details[g], OwnTagsOf(Details[g].name))
                /\ Len(Details[g].resources) = Len(MembersOf(Details[g].name))
                /\ \A i \in DOMAIN Details[g].resources :
                        ClassifiedAs(Details[g].resources[i],
                                     TagsOfRecord(MembersOf(Details[g].name)[i]))

\* one resource misses both required tags, another carries one of them with
\* a placeholder value, and a group carries a placeholder value as well
C11_Witness ==
    /\ pc = "returned"
    /\ Cardinality(required_tags) = 2
    /\ \E i, j \in DOMAIN result.non_compliant_resources :
            /\ Len(result.non_compliant_resources[i].missing_tags) = 2
            /\ result.non_compliant_resources[i].invalid_value_tags = <<>>
            /\ result.non_compliant_resources[j].missing_tags = <<>>
            /\ Len(result.non_compliant_resources[j].invalid_value_tags) = 1
    /\ \E g \in DOMAIN Details :
            /\ Details[g].missing_tags = <<>>
            /\ Details[g].invalid_value_tags # <<>>

----------------------------------------------------------------------------
(* C12: for every counted resource these are equivalent: it is listed in   *)
(* non_compliant_resources; it has a missing or invalid-valued required    *)
(* tag; its compliance_rate is below 100.0.  non_compliant_resources holds *)
(* each such resource exactly once.                                        *)

\* the record has a missing or invalid-valued required tag
Offending(e) == AbsentRequired(TagsOfRecord(e)) # {} \/ InvalidRequired(TagsOfRecord(e)) # {}

\* the typed records with a missing or invalid-valued required tag, as the
\* entries non_compliant_resources has to hold, in input order
OffendingRecords ==
    LET under(k) == SelectSeq(RecordsUnder(k), Offending)
        infos(k) == [i \in 1..Len(under(k)) |-> ResourceInfo(self, k, under(k)[i].d)]
    IN  infos("virtual_machines") \o infos("storage_accounts")

C12_NonCompliantIffBelow100 ==
    pc = "returned" =>
        /\ \A i \in DOMAIN TypedRecords :
                LET e == TypedRecords[i]
                    info == ResourceInfo(self, "virtual_machines", e.d)
                IN  /\ Offending(e) <=> info.compliance_rate < 1000
                    /\ Offending(e) <=> (info.missing_tags # <<>> \/ info.invalid_value_tags # <<>>)
                    /\ info.compliance_rate = 1000
                            <=> \A t \in required_tags :
                                    /\ t \in DOMAIN TagsOfRecord(e)
                                    /\ IsTagValueValid(self, TagsOfRecord(e)[t])
        /\ result.non_compliant_resources = OffendingRecords
        /\ \A i \in DOMAIN result.non_compliant_resources :
                result.non_compliant_resources[i].compliance_rate < 1000
        /\ \A g \in DOMAIN Details : \A i \in DOMAIN Details[g].resources :
                LET member == Details[g].resources[i]
                IN  member.compliance_rate < 1000
                        <=> \E j \in DOMAIN result.non_compliant_resources :
                                result.non_compliant_resources[j] = member
        /\ result.summary.total_resources - Len(result.non_compliant_resources)
                = Cardinality({i \in DOMAIN TypedRecords : ~Offending(TypedRecords[i])})

\* of two resources the one whose only fault is a placeholder value is
\* listed, the compliant one is not
C12_Witness ==
    /\ pc = "returned"
    /\ result.summary.total_resources = 2
    /\ Len(result.non_compliant_resources) = 1
    /\ result.non_compliant_resources[1].missing_tags = <<>>
    /\ result.non_compliant_resources[1].invalid_value_tags # <<>>
    /\ result.non_compliant_resources[1].compliance_rate = 500

----------------------------------------------------------------------------
(* Findings of a report, by kind *)

Findings == result.findings

IsOverallFinding(f) == f.resource = <<"All Resources">>
IsUntaggedFinding(f) == f.resource = <<"Multiple Resources">>
IsMissingFinding(f) == f.resource[1] = "Tag: " /\ f.issue.kind = "missing"
IsInvalidFinding(f) == f.resource[1] = "Tag: " /\ f.issue.kind = "invalid"

----------------------------------------------------------------------------
(* C13: with an empty required-tag set, for every catalog the overall      *)
(* compliance rate is 100.0, non_compliant_resources is empty, every       *)
(* resource's and every group's compliance_rate is 100.0, and findings     *)
(* holds no overall-banding finding and no per-tag finding.                *)

C13_EmptyPolicy ==
    (pc = "returned" /\ required_tags = {}) =>
        /\ result.summary.overall_compliance_rate = 1000
        /\ result.non_compliant_resources = <<>>
        /\ \A i \in DOMAIN TypedRecords :
                ResourceInfo(self, "virtual_machines", TypedRecords[i].d).compliance_rate = 1000
        /\ \A g \in DOMAIN Details :
                /\ Details[g].compliance_rate = 1000
                /\ Details[g].non_compliant_resources = 0
                /\ \A i \in DOMAIN Details[g].resources :
                        Details[g].resources[i].compliance_rate = 1000
        /\ \A i \in DOMAIN Findings :
                /\ ~IsOverallFinding(Findings[i])
                /\ ~IsMissingFinding(Findings[i])
                /\ ~IsInvalidFinding(Findings[i])

\* nothing is required; an untagged group holds an untagged resource
C13_Witness ==
    /\ pc = "returned"
    /\ required_tags = {}
    /\ result.summary.resources_without_tags > 0
    /\ \E g \in DOMAIN Details :
            /\ Details[g].existing_tags = <<>>
            /\ \E i \in DOMAIN Details[g].resources : Details[g].resources[i].existing_tags = <<>>
    /\ Len(Findings) = 1

----------------------------------------------------------------------------
(* C14: in every report each resource's compliance_rate, each resource     *)
(* group's aggregate compliance_rate and the overall compliance rate lie   *)
(* between 0.0 and 100.0.                                                  *)

InBounds(rate) == 0 <= rate /\ rate <= 1000

C14_ComplianceBound ==
    pc = "returned" =>
        /\ InBounds(result.summary.overall_compliance_rate)
        /\ \A i \in DOMAIN TypedRecords :
                InBounds(ResourceInfo(self, "virtual_machines", TypedRecords[i].d).compliance_rate)
        /\ \A i \in DOMAIN result.non_compliant_resources :
                InBounds(result.non_compliant_resources[i].compliance_rate)
        /\ \A g \in DOMAIN Details :
                /\ InBounds(Details[g].compliance_rate)
                /\ \A i \in DOMAIN Details[g].resources :
                        InBounds(Details[g].resources[i].compliance_rate)

\* both ends are reached: a group at 0.0 and a group with members at 100.0
C14_Witness ==
    /\ pc = "returned"
    /\ Len(Details) = 2
    /\ Details[1].compliance_rate = 0
    /\ Details[2].compliance_rate = 1000
    /\ Details[2].resources # <<>>
    /\ result.summary.overall_compliance_rate > 0
    /\ result.summary.overall_compliance_rate < 1000

----------------------------------------------------------------------------
(* C15: findings holds exactly one finding about overall compliance, of    *)
(* severity 'high' when the overall rate is below 50, 'medium' when it is  *)
(* at least 50 and below 80, 'low' when at least 80 and below 100, and no  *)
(* such finding when the rate is 100.                                      *)

OverallFindings == SelectSeq(Findings, IsOverallFinding)

C15_OverallBanding ==
    pc = "returned" =>
        LET rate == result.summary.overall_compliance_rate
        IN  /\ rate = 1000 => OverallFindings = <<>>
            /\ rate < 1000 => Len(OverallFindings) = 1
            /\ rate < 500 => OverallFindings[1].severity = "high"
            /\ (500 <= rate /\ rate < 800) => OverallFindings[1].severity = "medium"
            /\ (800 <= rate /\ rate < 1000) => OverallFindings[1].severity = "low"
            /\ \A i \in DOMAIN OverallFindings : OverallFindings[i].issue.rate = rate

\* the overall rate is exactly 50.0 and the finding is 'medium'
C15_Witness ==
    /\ pc = "returned"
    /\ result.summary.overall_compliance_rate = 500
    /\ Len(OverallFindings) = 1
    /\ OverallFindings[1].severity = "medium"

----------------------------------------------------------------------------
(* C18: in every report the findings come in the order overall-banding     *)
(* finding, untagged-resources finding, missing-tag findings, invalid-     *)
(* value findings; no finding of a later kind precedes one of an earlier   *)
(* kind, and every finding has category 'tagging' and a severity among     *)
(* low, medium, high, critical.                                            *)

\* 1 overall, 2 untagged, 3 missing tag, 4 invalid value, 0 anything else
KindRank(f) ==
    IF IsOverallFinding(f) THEN 1
    ELSE IF IsUntaggedFinding(f) THEN 2
    ELSE IF IsMissingFinding(f) THEN 3
    ELSE IF IsInvalidFinding(f) THEN 4
    ELSE 0

C18_FindingsOrder ==
    pc = "returned" =>
        /\ \A i \in DOMAIN Findings :
                /\ KindRank(Findings[i]) \in 1..4
                /\ Findings[i].category = "tagging"
                /\ Findings[i].severity \in {"low", "medium", "high", "critical"}
        /\ \A i, j \in DOMAIN Findings :
                i < j => KindRank(Findings[i]) <= KindRank(Findings[j])
        /\ Cardinality({i \in DOMAIN Findings : KindRank(Findings[i]) = 1}) <= 1
        /\ Cardinality({i \in DOMAIN Findings : KindRank(Findings[i]) = 2}) <= 1

\* a report with a finding of each of the four kinds
C18_Witness ==
    /\ pc = "returned"
    /\ \A k \in 1..4 : \E i \in DOMAIN Findings : KindRank(Findings[i]) = k
    /\ Len(Findings) >= 5

----------------------------------------------------------------------------
(* Findings and their inputs, for a report and for a direct call of        *)
(* _generate_findings                                                      *)

DirectCall == probe # PyNone

ReportedFindings == IF DirectCall THEN result.items ELSE result.findings

\* total_resources and resources_without_tags as the findings are to see them
TotalCount == IF DirectCall THEN probe.total_resources ELSE Len(TypedRecords)

UntaggedCount ==
    IF DirectCall THEN probe.resources_without_tags
    ELSE Cardinality({i \in DOMAIN TypedRecords : DOMAIN TagsOfRecord(TypedRecords[i]) = {}})

\* the number of resources that lack the required tag t
MissingCount(t) ==
    IF DirectCall
    THEN Cardinality({i \in DOMAIN probe.missing_tags_by_resource :
                        t \in Range(probe.missing_tags_by_resource[i].missing_tags)})
    ELSE Cardinality({i \in DOMAIN TypedRecords : t \in AbsentRequired(TagsOfRecord(TypedRecords[i]))})

\* the number of resources that carry the required tag t with an invalid value
InvalidCount(t) ==
    IF DirectCall
    THEN Cardinality({i \in DOMAIN probe.missing_tags_by_resource :
                        \E j \in DOMAIN probe.missing_tags_by_resource[i].invalid_value_tags :
                            probe.missing_tags_by_resource[i].invalid_value_tags[j].tag_name = t})
    ELSE Cardinality({i \in DOMAIN TypedRecords : t \in InvalidRequired(TagsOfRecord(TypedRecords[i]))})

UntaggedFindings == SelectSeq(ReportedFindings, IsUntaggedFinding)

\* the severity of the untagged share: > 25% high, > 10% medium, else low
UntaggedBand(count, total) ==
    IF 4 * count > total THEN "high" ELSE IF 10 * count > total THEN "medium" ELSE "low"

\* pct (in tenths of a percent) is count/total as a percentage, to one decimal
IsPercentageOf(pct, count, total) == 2 * Abs(pct * total - 1000 * count) <= total

\* the severity of a reported untagged percentage
UntaggedBandOfPct(pct) ==
    IF pct > 250 THEN "high" ELSE IF pct > 100 THEN "medium" ELSE "low"

UntaggedFindingAsBanded ==
    /\ UntaggedCount = 0 => UntaggedFindings = <<>>
    /\ UntaggedCount > 0 =>
            /\ Len(UntaggedFindings) = 1
            /\ UntaggedFindings[1].severity = UntaggedBand(UntaggedCount, TotalCount)
            /\ UntaggedFindings[1].issue.count = UntaggedCount

UntaggedFindingAsBandedOnPct ==
    /\ UntaggedCount = 0 => UntaggedFindings = <<>>
    /\ UntaggedCount > 0 =>
            /\ Len(UntaggedFindings) = 1
            /\ IsPercentageOf(UntaggedFindings[1].issue.pct, UntaggedCount, TotalCount)
            /\ UntaggedFindings[1].severity = UntaggedBandOfPct(UntaggedFindings[1].issue.pct)
            /\ UntaggedFindings[1].issue.count = UntaggedCount

\* a report on at least one resource, all untagged, under a non-empty policy
AllUntagged ==
    /\ ~DirectCall
    /\ required_tags # {}
    /\ TotalCount > 0
    /\ UntaggedCount = TotalCount

HasHighOverallFinding ==
    \E i \in DOMAIN ReportedFindings :
        IsOverallFinding(ReportedFindings[i]) /\ ReportedFindings[i].severity = "high"

HasHighUntaggedFinding ==
    \E i \in DOMAIN ReportedFindings :
        IsUntaggedFinding(ReportedFindings[i]) /\ ReportedFindings[i].severity = "high"

----------------------------------------------------------------------------
(* C16 as stated: an untagged-resources finding is produced iff            *)
(* resources_without_tags > 0, of severity 'high' when the untagged share  *)
(* is above 25%, 'medium' when above 10%, 'low' otherwise; and when every  *)
(* resource is untagged and a required tag is configured, findings holds a *)
(* 'high' banding finding and a 'high' untagged-resources finding.         *)

C16_UntaggedFindingAndHighBand ==
    pc = "returned" =>
        /\ UntaggedFindingAsBanded
        /\ AllUntagged => (HasHighOverallFinding /\ HasHighUntaggedFinding)

(* C16 as the code has it: an untagged-resources finding is produced iff   *)
(* resources_without_tags > 0; its severity is 'high' when the untagged    *)
(* percentage, rounded to one decimal as the finding reports it, is above  *)
(* 25.0, 'medium' when above 10.0, 'low' otherwise; when there is at least *)
(* one resource, every resource is untagged and a required tag is          *)
(* configured, the untagged-resources finding is 'high', and the banding   *)
(* finding is 'high' when the catalog lists no resource group (listed      *)
(* groups enter the overall rate and can lift it to 50.0).                 *)

C16_UntaggedFinding ==
    pc = "returned" =>
        /\ UntaggedFindingAsBandedOnPct
        /\ AllUntagged => HasHighUntaggedFinding
        /\ (AllUntagged /\ GroupRecords = <<>>) => HasHighOverallFinding

\* 126 of 503 resources are untagged, a share just above a quarter that is
\* reported as 25.0%: the finding is 'medium'
C16_Witness ==
    /\ pc = "returned"
    /\ TotalCount = ManyResources
    /\ UntaggedCount = OverAQuarter
    /\ 4 * UntaggedCount > TotalCount
    /\ Len(UntaggedFindings) = 1
    /\ UntaggedFindings[1].issue.pct = 250
    /\ UntaggedFindings[1].severity = "medium"

----------------------------------------------------------------------------
(* C17 as stated: for missing tags and, separately, for invalid-valued     *)
(* tags, findings holds one finding per required tag that occurs at least  *)
(* once among the non-compliant resources, limited to the 5 tags of        *)
(* highest occurrence count and listed in non-increasing count order; each *)
(* is 'high' when count/total_resources > 50%, 'medium' when > 25%, 'low'  *)
(* otherwise.  Tags missing or invalid only on resource groups produce no  *)
(* per-tag finding.                                                        *)

MissingFindings == SelectSeq(ReportedFindings, IsMissingFinding)
InvalidFindings == SelectSeq(ReportedFindings, IsInvalidFinding)

GapBand(count, total) ==
    IF 2 * count > total THEN "high" ELSE IF 4 * count > total THEN "medium" ELSE "low"

\* the severity of a reported per-tag percentage
GapBandOfPct(pct) ==
    IF pct > 500 THEN "high" ELSE IF pct > 250 THEN "medium" ELSE "low"

Min(a, b) == IF a < b THEN a ELSE b

\* fs reports the required tags by their occurrence counts: one finding per
\* occurring tag, at most five, those of highest count, in non-increasing
\* count order; countOf[t] is the occurrence count of the required tag t
TopFiveOf(fs, countOf) ==
    LET occurring == {t \in required_tags : countOf[t] > 0}
        reported == {fs[i].issue.tag_name : i \in DOMAIN fs}
    IN  /\ Len(fs) = Min(5, Cardinality(occurring))
        /\ Cardinality(reported) = Len(fs)
        /\ reported \subseteq occurring
        /\ \A i \in DOMAIN fs :
                /\ fs[i].resource = <<"Tag: ", fs[i].issue.tag_name>>
                /\ fs[i].issue.count = countOf[fs[i].issue.tag_name]
        /\ \A i, j \in DOMAIN fs : i < j => fs[i].issue.count >= fs[j].issue.count
        /\ \A t \in occurring \ reported : \A i \in DOMAIN fs : fs[i].issue.count >= countOf[t]

\* every finding of fs has the severity of its exact share of the resources
BandedOnShare(fs) ==
    \A i \in DOMAIN fs : fs[i].severity = GapBand(fs[i].issue.count, TotalCount)

\* every finding of fs has the severity of the percentage it reports
BandedOnPct(fs) ==
    \A i \in DOMAIN fs :
        /\ IsPercentageOf(fs[i].issue.pct, fs[i].issue.count, TotalCount)
        /\ fs[i].severity = GapBandOfPct(fs[i].issue.pct)

\* tags missing or invalid only on resource groups produce no per-tag finding
GroupGapsUnreported ==
    ~DirectCall =>
        \A g \in DOMAIN GroupRecords : \A t \in required_tags :
            /\ (t \in AbsentRequired(TagsOfRecord(GroupRecords[g])) /\ MissingCount(t) = 0)
                    => \A i \in DOMAIN MissingFindings : MissingFindings[i].issue.tag_name # t
            /\ (t \in InvalidRequired(TagsOfRecord(GroupRecords[g])) /\ InvalidCount(t) = 0)
                    => \A i \in DOMAIN InvalidFindings : InvalidFindings[i].issue.tag_name # t

C17_PerTagFindingsOnShare ==
    pc = "returned" =>
        /\ TopFiveOf(MissingFindings, [t \in required_tags |-> MissingCount(t)])
        /\ TopFiveOf(InvalidFindings, [t \in required_tags |-> InvalidCount(t)])
        /\ BandedOnShare(MissingFindings)
        /\ BandedOnShare(InvalidFindings)
        /\ GroupGapsUnreported

(* C17 as the code has it: the findings are as stated, except that the     *)
(* thresholds 50.0 and 25.0 are compared with the percentage rounded to    *)
(* one decimal, as the finding reports it, not with the exact share.       *)

C17_PerTagFindings ==
    pc = "returned" =>
        /\ TopFiveOf(MissingFindings, [t \in required_tags |-> MissingCount(t)])
        /\ TopFiveOf(InvalidFindings, [t \in required_tags |-> InvalidCount(t)])
        /\ BandedOnPct(MissingFindings)
        /\ BandedOnPct(InvalidFindings)
        /\ GroupGapsUnreported

\* six required tags are missing on 126 of 503 resources, a share just above
\* a quarter that is reported as 25.0%: five findings, each 'low'
C17_Witness ==
    /\ pc = "returned"
    /\ DirectCall
    /\ TotalCount = ManyResources
    /\ \A t \in required_tags : MissingCount(t) = OverAQuarter
    /\ Cardinality(required_tags) = 6
    /\ Len(MissingFindings) = 5
    /\ \A i \in DOMAIN MissingFindings :
            /\ MissingFindings[i].issue.pct = 250
            /\ MissingFindings[i].severity = "low"

----------------------------------------------------------------------------
(* C19: over any sequence of analyze calls on one engine, the report of    *)
(* each call is a function of that call's catalog and of the               *)
(* construction-time configuration only: the configuration is what the     *)
(* constructor made of its arguments, every report so far is what the      *)
(* analysis gives for its catalog, two calls with the same catalog gave    *)
(* the same report, and the last report counts the resources and groups of *)
(* the last catalog alone.                                                 *)

----------------------------------------------------------------------------
(* C20: when two callers run analyze concurrently on one engine, with the  *)
(* same or different catalogs, then under every interleaving of their      *)
(* steps each caller receives exactly the report (or the TypeError) a lone *)
(* sequential call with its catalog gives, the engine's configuration is   *)
(* never changed, and a step changes the frame, position and result of one *)
(* call only.                                                              *)

Done(t) == pc[t] \in {"returned", "raised"}

AsSequential ==
    /\ required_tags = InitRequiredTags(arg_required_tags)
    /\ invalid_tag_values = InitInvalidTagValues(arg_invalid_tag_values)
    /\ \A t \in Threads : Done(t) => result[t] = AnalyzeResourceTags(self, resources[t])

OneCallPerStep ==
    \E t \in Threads : \A u \in Threads \ {t} :
        /\ probe'[u] = probe[u]
        /\ pc'[u] = pc[u]
        /\ result'[u] = result[u]

C20_ThreadSafe == []AsSequential /\ [][OneCallPerStep]_vars

\* one call has returned its report on two resources while the other, begun
\* before, is still in its loop with one of its two resources counted
C20_Witness ==
    /\ pc["t1"] = "returned"
    /\ result["t1"].summary.total_resources = 2
    /\ result["t1"] = AnalyzeResourceTags(self, resources["t1"])
    /\ pc["t2"] = "analyzing"
    /\ probe["t2"].acc.total_resources = 1
    /\ probe["t2"].resource_list # <<>>
    /\ resources["t1"] # resources["t2"]

----------------------------------------------------------------------------
(* C21: required_tags_compliance is presence-only: it holds exactly one    *)
(* entry per required tag; its compliant_resources is the number of        *)
(* counted resources (not resource groups) whose tag map contains the tag  *)
(* name, whatever the value, and non_compliant_resources is                *)
(* total_resources - compliant_resources.                                  *)

\* the number of counted resources whose tag map has the name t
CarrierCount(t) ==
    Cardinality({i \in DOMAIN TypedRecords : t \in DOMAIN TagsOfRecord(TypedRecords[i])})

C21_PresenceOnly ==
    pc = "returned" =>
        LET summary == result.required_tags_compliance
        IN  /\ Len(summary) = Cardinality(required_tags)
            /\ {summary[i].tag_name : i \in DOMAIN summary} = required_tags
            /\ \A i \in DOMAIN summary :
                    /\ summary[i].compliant_resources = CarrierCount(summary[i].tag_name)
                    /\ summary[i].non_compliant_resources
                            = result.summary.total_resources - summary[i].compliant_resources

\* two resources carry Environment, one of them with a placeholder value, and
\* so does the resource group: the entry counts the two resources
C21_Witness ==
    /\ pc = "returned"
    /\ GroupRecords # <<>>
    /\ \E i \in DOMAIN TypedRecords :
            /\ "Environment" \in DOMAIN TagsOfRecord(TypedRecords[i])
            /\ TagsOfRecord(TypedRecords[i]).Environment = ValuePlaceholder
    /\ \E i \in DOMAIN result.required_tags_compliance :
            /\ result.required_tags_compliance[i].tag_name = "Environment"
            /\ result.required_tags_compliance[i].compliant_resources = 2
            /\ result.required_tags_compliance[i].non_compliant_resources = 1

----------------------------------------------------------------------------
(* C22: tag_usage has one entry per distinct tag name found on counted     *)
(* resources, usage_count is the number of counted resources carrying the  *)
(* tag, and the list is sorted by non-increasing usage_count.              *)

TagNamesFound == UNION {DOMAIN TagsOfRecord(TypedRecords[i]) : i \in DOMAIN TypedRecords}

C22_TagUsage ==
    pc = "returned" =>
        LET usage == result.tag_usage
        IN  /\ Len(usage) = Cardinality(TagNamesFound)
            /\ {usage[i].tag_name : i \in DOMAIN usage} = TagNamesFound
            /\ \A i \in DOMAIN usage : usage[i].usage_count = CarrierCount(usage[i].tag_name)
            /\ \A i, j \in DOMAIN usage : i < j => usage[i].usage_count >= usage[j].usage_count

\* Owner is met first, on one resource, Environment later, on two: tag_usage
\* lists Environment before Owner
C22_Witness ==
    /\ pc = "returned"
    /\ Len(TypedRecords) = 3
    /\ DOMAIN TagsOfRecord(TypedRecords[1]) = {"Owner"}
    /\ Len(result.tag_usage) = 2
    /\ result.tag_usage[1].tag_name = "Environment"
    /\ result.tag_usage[1].usage_count = 2
    /\ result.tag_usage[2].tag_name = "Owner"
    /\ result.tag_usage[2].usage_count = 1

----------------------------------------------------------------------------
(* C23: every resource record listed in a resource group's 'resources'     *)
(* list carries a 'tags' field holding that resource's actual tag map:     *)
(* every input tag name with its input value.                              *)

C23_MembersCarryTags ==
    pc = "returned" =>
        \A g \in DOMAIN Details : \A m \in DOMAIN Details[g].resources :
            /\ "tags" \in DOMAIN Details[g].resources[m]
            /\ Details[g].resources[m].tags = TagsOfRecord(MembersOf(Details[g].name)[m])

----------------------------------------------------------------------------
(* C24: across any sequence of POST /api/env-vars requests a stored secret *)
(* field (openai_api_key, azure_openai_key, azure_client_secret) changes   *)
(* only when the posted value is non-empty and does not contain the mask   *)
(* marker '***', and then to the posted value; a masked or empty value     *)
(* leaves the stored secret unchanged while the other non-empty fields of  *)
(* the same request are still updated; so no stored secret ever contains   *)
(* '***'.                                                                  *)

SecretFields == {EnvVarSteps[i].field : i \in {j \in DOMAIN EnvVarSteps : EnvVarSteps[j].secret}}
PlainFields == {EnvVarSteps[i].field : i \in DOMAIN EnvVarSteps} \ SecretFields

Unset == [py |-> "unset"]

StoredIn(stored, field) == IF field \in DOMAIN stored THEN stored[field] ELSE Unset

\* what a request body posts for a field (null when the body is no object)
PostedIn(body, field) ==
    IF body.py = "dict" /\ field \in DOMAIN body.d THEN body.d[field] ELSE PyNone

NonEmpty(value) == value.py = "str" /\ value.s # <<>>

Masked(value) == value.py = "str" /\ Contains(value.s, MaskMarker)

NoStoredMask ==
    \A f \in SecretFields \cap DOMAIN env_vars : ~Masked(env_vars[f])

SecretsChangeOnlyUnmasked ==
    \A f \in SecretFields :
        LET posted == PostedIn(probe, f)
        IN  /\ StoredIn(resources', f) # StoredIn(resources, f)
                => (NonEmpty(posted) /\ ~Masked(posted) /\ StoredIn(resources', f) = posted)
            /\ (~NonEmpty(posted) \/ Masked(posted))
                => StoredIn(resources', f) = StoredIn(resources, f)

OthersStillUpdated ==
    pc = "handling" =>
        /\ pc' = "responded"
        /\ \A f \in SecretFields :
                LET posted == PostedIn(probe, f)
                IN  (NonEmpty(posted) /\ ~Masked(posted)) => StoredIn(resources', f) = posted
        /\ \A f \in PlainFields :
                LET posted == PostedIn(probe, f)
                IN  StoredIn(resources', f) = IF NonEmpty(posted) THEN posted ELSE StoredIn(resources, f)

C24_MaskedSecretsKept ==
    []NoStoredMask /\ [][SecretsChangeOnlyUnmasked /\ OthersStillUpdated]_vars

\* the request posted the masked form of the stored openai_api_key together
\* with a new model: the key is as before, the model is the new one
C24_Witness ==
    /\ pc = "responded"
    /\ probe.py = "dict"
    /\ StoredIn(env_vars, "openai_api_key") = PyStr(LongSecret)
    /\ PostedIn(probe, "openai_api_key") = PyStr(MaskSecret(LongSecret))
    /\ PostedIn(probe, "openai_model") = PyStr(<<"m", "2">>)
    /\ StoredIn(env_vars, "openai_model") = PyStr(<<"m", "2">>)
    /\ result.success

----------------------------------------------------------------------------
(* C25: summary.total_resources is the number of record entries across all *)
(* list-valued catalog keys other than 'resource_groups' and               *)
(* 'all_resources', and resources_with_tags + resources_without_tags =     *)
(* total_resources, where a resource with tags = None or an empty tag map  *)
(* counts as without tags and a resource whose only tag has an empty value *)
(* counts as with tags.                                                    *)

\* the record entries of every list-valued key that is counted
CountedRecords ==
    LET keys == {k \in DOMAIN resources :
                    resources[k].py = "list" /\ k \notin {"resource_groups", "all_resources"}}
        entries == UNION {{<<k, i>> : i \in DOMAIN resources[k].items} : k \in keys}
    IN  {p \in entries : resources[p[1]].items[p[2]].py = "dict"}

\* the input record has a tag map with at least one name
HasTagsInInput(p) ==
    LET rec == resources[p[1]].items[p[2]].d
    IN  /\ "tags" \in DOMAIN rec
        /\ rec.tags.py = "dict"
        /\ DOMAIN rec.tags.d # {}

----------------------------------------------------------------------------
(* C26: a counted resource is in the resources list of a group exactly     *)
(* when its resource_group equals the group's name, case included; it is   *)
(* in at most one list; a resource naming no listed group, or naming none  *)
(* ('N/A'), is in no list and still counts in total_resources, in          *)
(* non_compliant_resources and in the overall compliance average.          *)

\* r is one of the integers nearest to num/den
IsNearest(r, num, den) == 2 * Abs(r * den - num) <= den

\* the typed records whose resource_group is the name of a listed group
MatchedRecords ==
    SelectSeq(TypedRecords,
              LAMBDA e : \E i \in DOMAIN Details : Details[i].name = GroupOfRecord(e))

C26_GroupMembership ==
    pc = "returned" =>
        LET n == Len(TypedRecords)
            g == Len(Details)
            listed == SumSeq([i \in 1..g |-> Len(Details[i].resources)])
            total == SumSeq(RatesOf(TypedRecords))
                     + SumSeq([i \in 1..g |-> Details[i].compliance_rate])
        IN  /\ \A i \in 1..g :
                /\ Details[i].resources = MemberInfos(Details[i].name)
                /\ \A j \in DOMAIN Details[i].resources :
                        Details[i].resources[j].resource_group = Details[i].name
            /\ listed = Len(MatchedRecords)
            /\ result.summary.total_resources = n
            /\ Len(result.non_compliant_resources) = Len(NonCompliantRecords)
            /\ required_tags # {} /\ n + g > 0
                    => IsNearest(result.summary.overall_compliance_rate, total, n + g)

\* groups "rg1" and "RG1" with one member each, and a non-compliant resource
\* without resource_group that is in neither list and is counted
C26_Witness ==
    /\ pc = "returned"
    /\ required_tags # {}
    /\ Len(Details) = 2
    /\ \A i \in DOMAIN Details : Len(Details[i].resources) = 1
    /\ \E i \in DOMAIN TypedRecords :
            /\ "resource_group" \notin DOMAIN TypedRecords[i].d
            /\ ComplianceRateOf(TagsOfRecord(TypedRecords[i])) < 1000
    /\ Len(MatchedRecords) = 2
    /\ result.summary.total_resources = 3
    /\ Len(result.non_compliant_resources) >= 1


----------------------------------------------------------------------------
(* C27: every entry of resource_groups_details has total_resources equal   *)
(* to the length of its resources list and non_compliant_resources equal   *)
(* to the number of its members with a missing or invalid-valued required  *)
(* tag, which are its members rated below 100.0; the count lies between 0  *)
(* and total_resources, and the gaps of the group's own tags, listed in    *)
(* its missing_tags and invalid_value_tags, do not enter it.               *)

\* the required tags the group's own tag map lacks or holds with an invalid value
OwnGapsOf(group_name) ==
    AbsentRequired(OwnTagsOf(group_name)) \cup InvalidRequired(OwnTagsOf(group_name))

C27_GroupCounts ==
    pc = "returned" =>
        \A i \in DOMAIN Details :
            LET d == Details[i]
                members == MembersOf(d.name)
                below == {j \in DOMAIN d.resources : d.resources[j].compliance_rate < 1000}
            IN  /\ d.total_resources = Len(d.resources)
                /\ d.non_compliant_resources = Len(SelectSeq(members, Offending))
                /\ d.non_compliant_resources = Cardinality(below)
                /\ 0 <= d.non_compliant_resources
                /\ d.non_compliant_resources <= d.total_resources
                /\ Range(d.missing_tags) = AbsentRequired(OwnTagsOf(d.name))
                /\ {d.invalid_value_tags[j].tag_name : j \in DOMAIN d.invalid_value_tags}
                        = InvalidRequired(OwnTagsOf(d.name))

\* a group whose own tags have a gap counts the one of its two members that
\* does not comply, next to a fully tagged group whose member complies
C27_Witness ==
    /\ pc = "returned"
    /\ \E i, k \in DOMAIN Details :
            /\ OwnGapsOf(Details[i].name) # {}
            /\ Details[i].total_resources = 2
            /\ Details[i].non_compliant_resources = 1
            /\ OwnGapsOf(Details[k].name) = {}
            /\ Details[k].total_resources = 1
            /\ Details[k].non_compliant_resources = 0


----------------------------------------------------------------------------
(* C28: resource groups are keyed by name.  resource_groups_details has    *)
(* exactly one entry per distinct name among the record entries under      *)
(* 'resource_groups', summary.total_resource_groups is the number of these *)
(* names, the tags of an entry are those of the last record of its name,   *)
(* and every resource naming the group is attached to that one entry.      *)

\* the distinct names of the group records
GroupNamesListed == {NameOfGroupRecord(GroupRecords[i]) : i \in DOMAIN GroupRecords}

C28_GroupsKeyedByName ==
    pc = "returned" =>
        /\ Len(Details) = Cardinality(GroupNamesListed)
        /\ {Details[i].name : i \in DOMAIN Details} = GroupNamesListed
        /\ result.summary.total_resource_groups = Cardinality(GroupNamesListed)
        /\ \A i \in DOMAIN Details :
                /\ Details[i].tags = OwnTagsOf(Details[i].name)
                /\ Details[i].resources = MemberInfos(Details[i].name)

\* two records named "rg1", the first without tags, the second tagged: one
\* entry, tagged, holding both resources that name "rg1"
C28_Witness ==
    /\ pc = "returned"
    /\ Len(GroupRecords) = 2
    /\ GroupNamesListed = {"rg1"}
    /\ TagsOfRecord(GroupRecords[1]) # TagsOfRecord(GroupRecords[2])
    /\ Len(Details) = 1
    /\ Details[1].tags = TagsOfRecord(GroupRecords[2])
    /\ Len(MembersOf("rg1")) = 2
    /\ Details[1].total_resources = 2


----------------------------------------------------------------------------
(* C29: a call of analyze_resource_tags leaves its inputs unchanged: when  *)
(* it has returned, the catalog passed in, with its keys, lists, records   *)
(* and tag maps, and the engine's required-tag set and invalid-value set   *)
(* are equal to what they were when the call began.                        *)

C29_InputsUnchanged ==
    pc \in {"running", "returned"} => InputsAt(heap) = before

\* a returned call on a tagged group with two resources, one of them not
\* compliant: the report is the one of the catalog, whose objects are as before
C29_Witness ==
    /\ pc = "returned"
    /\ before.engine.required_tags # {}
    /\ Len(before.catalog.virtual_machines.items) = 2
    /\ result = AnalyzeResourceTags(before.engine, before.catalog)
    /\ Len(result.resource_groups_details) = 1
    /\ DOMAIN result.resource_groups_details[1].tags # {}
    /\ result.resource_groups_details[1].total_resources = 2
    /\ Len(result.non_compliant_resources) = 1


----------------------------------------------------------------------------
(* C30: after any sequence of extract_backlog_items calls on one           *)
(* BacklogGenerator, the items of backlog_items have pairwise distinct ids *)
(* and backlog_items is ordered by non-decreasing priority (critical 1,    *)
(* high 2, medium 3, low 4).                                               *)

DistinctIds ==
    \A i, j \in DOMAIN backlog_items : i # j => backlog_items[i].id # backlog_items[j].id

OrderedByPriority ==
    \A i \in 1..(Len(backlog_items) - 1) :
        backlog_items[i].priority <= backlog_items[i + 1].priority

C30_DistinctIdsAndOrdered == DistinctIds /\ OrderedByPriority

====
